---- MODULE Spec2Model ----
(***************************************************************************)
(* A model of the TextHighlighter class (src/src/text-highlighter.js) and  *)
(* of its helpers (src/src/utils.js) over a small document tree.           *)
(*                                                                         *)
(* The document is a heap of nodes.  A node is an element (tag, children,  *)
(* marker attribute, colour, timestamp) or a text node (a sequence of      *)
(* characters).  A character is an integer: its absolute value is the      *)
(* position the character has in the document as loaded, and it is         *)
(* negative when the character is white space, so "a bc" is                *)
(* <<1, -2, 3, 4>>.  Node 1 is the document body, node 2 the anchor        *)
(* element the highlighter is bound to.                                    *)
(***************************************************************************)
EXTENDS Integers, Sequences, FiniteSets, TLC

\* Size of the node heap, and the number of operations of one behaviour.
MaxNodes == 20
MaxOps == 2
MaxWalkOps == 1
MaxDeepOps == 3
MaxList == 2
MaxSpanOps == 2
TooFar == 9
MaxDecodes == 1
MaxCodecOps == 2
MaxRangeOps == 1
MaxEventOps == 1
MaxQueryOps == 2
MaxSerialOps == 2
MaxFindOps == 2
MaxNestOps == 3

Ids == 1..MaxNodes
Null == 0
Body == 1
El == 2

Colors == {"yellow", "red"}

\* config.js: tags whose content is never highlighted (two of them are used).
IGNORE_TAGS == {"SCRIPT", "STYLE", "SELECT", "OPTION", "BUTTON", "OBJECT", "APPLET",
                "VIDEO", "AUDIO", "CANVAS", "EMBED", "PARAM", "METER", "PROGRESS"}

Blank == [kind |-> "free", tag |-> "", val |-> <<>>, kids |-> <<>>, parent |-> Null,
          hl |-> FALSE, color |-> "", ts |-> 0]

ElemNode(tag, kids, parent) == [kind |-> "elem", tag |-> tag, val |-> <<>>, kids |-> kids,
                                parent |-> parent, hl |-> FALSE, color |-> "", ts |-> 0]

TextNode(val, parent) == [kind |-> "text", tag |-> "", val |-> val, kids |-> <<>>,
                          parent |-> parent, hl |-> FALSE, color |-> "", ts |-> 0]

----------------------------------------------------------------------------
(* Sequences *)

IndexOf(s, x) == CHOOSE i \in 1..Len(s) : s[i] = x

Without(s, x) == SelectSeq(s, LAMBDA y : y # x)

\* s with x put at position i
InsertAt(s, i, x) == SubSeq(s, 1, i - 1) \o <<x>> \o SubSeq(s, i, Len(s))

Range(s) == {s[i] : i \in 1..Len(s)}

SeqToSet(s) == Range(s)

IsText(h, n) == n # Null /\ h[n].kind = "text"

IsElem(h, n) == n # Null /\ h[n].kind = "elem"

----------------------------------------------------------------------------
(* Reading the tree *)

parentNode(h, n) == h[n].parent

hasChildNodes(h, n) == h[n].kids # <<>>

firstChild(h, n) == IF h[n].kids = <<>> THEN Null ELSE h[n].kids[1]

ChildIndex(h, n) == IndexOf(h[h[n].parent].kids, n)

previousSibling(h, n) ==
  IF h[n].parent = Null THEN Null
  ELSE LET i == ChildIndex(h, n)
       IN IF i = 1 THEN Null ELSE h[h[n].parent].kids[i - 1]

nextSibling(h, n) ==
  IF h[n].parent = Null THEN Null
  ELSE LET i == ChildIndex(h, n)
           ks == h[h[n].parent].kids
       IN IF i = Len(ks) THEN Null ELSE ks[i + 1]

\* childNodes.item(i), i counted from 0; null when out of range
childItem(h, n, i) == IF i >= 0 /\ i < Len(h[n].kids) THEN h[n].kids[i + 1] ELSE Null

RECURSIVE Parents(_, _)
Parents(h, n) == IF h[n].parent = Null THEN <<>> ELSE <<h[n].parent>> \o Parents(h, h[n].parent)

Depth(h, n) == Len(Parents(h, n))

\* dom(a).contains(b): b is a proper descendant of a
Contains(h, a, b) == a # b /\ a \in Range(Parents(h, b))

Attached(h, n) == n = Body \/ Body \in Range(Parents(h, n))

RECURSIVE PreOrder(_, _)
RECURSIVE PreOrderSeq(_, _)
PreOrder(h, n) == <<n>> \o PreOrderSeq(h, h[n].kids)
PreOrderSeq(h, ks) == IF ks = <<>> THEN <<>> ELSE PreOrder(h, Head(ks)) \o PreOrderSeq(h, Tail(ks))

RECURSIVE textContent(_, _)
RECURSIVE TextOfSeq(_, _)
textContent(h, n) == IF h[n].kind = "text" THEN h[n].val ELSE TextOfSeq(h, h[n].kids)
TextOfSeq(h, ks) == IF ks = <<>> THEN <<>> ELSE textContent(h, Head(ks)) \o TextOfSeq(h, Tail(ks))

\* String.prototype.trim() leaves the empty string
IsBlank(val) == \A i \in 1..Len(val) : val[i] < 0

isHighlight(h, n) == n # Null /\ h[n].kind = "elem" /\ h[n].hl

haveSameColor(h, a, b) == h[a].color = h[b].color

----------------------------------------------------------------------------
(* Changing the tree.  Every operator returns the new heap. *)

Fresh(h) == CHOOSE i \in Ids : h[i].kind = "free" /\ \A j \in Ids : h[j].kind = "free" => i <= j

\* Node.removeChild / dom(n).remove(): n leaves its parent and keeps its subtree
Detach(h, n) ==
  IF h[n].parent = Null THEN h
  ELSE LET p == h[n].parent
       IN [h EXCEPT ![p].kids = Without(@, n), ![n].parent = Null]

\* parent.insertBefore(n, ref); ref = Null appends to parent p
InsertBeforeIn(h, p, n, ref) ==
  LET h1 == Detach(h, n)
      ks == h1[p].kids
      i  == IF ref = Null THEN Len(ks) + 1 ELSE IndexOf(ks, ref)
  IN [h1 EXCEPT ![p].kids = InsertAt(ks, i, n), ![n].parent = p]

\* dom(n).insertBefore(ref)
domInsertBefore(h, n, ref) == InsertBeforeIn(h, h[ref].parent, n, ref)

\* dom(n).insertAfter(ref)
domInsertAfter(h, n, ref) == InsertBeforeIn(h, h[ref].parent, n, nextSibling(h, ref))

\* Text.splitText(k): n keeps the first k characters, the new node Fresh(h) holds the rest
splitText(h, n, k) ==
  LET m  == Fresh(h)
      h1 == [h EXCEPT ![m] = TextNode(SubSeq(h[n].val, k + 1, Len(h[n].val)), Null),
                      ![n].val = SubSeq(h[n].val, 1, k)]
  IN IF h[n].parent = Null THEN h1
     ELSE InsertBeforeIn(h1, h[n].parent, m, nextSibling(h, n))

\* dom(n).wrap(w): the new element w takes n's place and n becomes its only child
domWrap(h, n, w) ==
  LET h1 == IF h[n].parent = Null THEN h ELSE InsertBeforeIn(h, h[n].parent, w, n)
  IN InsertBeforeIn(h1, w, n, Null)

\* dom(w).unwrap(): the children of w take its place, w leaves the tree
RECURSIVE MoveAllBefore(_, _, _)
MoveAllBefore(h, ks, ref) ==
  IF ks = <<>> THEN h ELSE MoveAllBefore(domInsertBefore(h, Head(ks), ref), Tail(ks), ref)

domUnwrap(h, w) == Detach(MoveAllBefore(h, h[w].kids, w), w)

\* dom(n).prepend(nodes): nodes become the first children of n, in their order
RECURSIVE domPrepend(_, _, _)
domPrepend(h, n, ks) ==
  IF ks = <<>> THEN h
  ELSE domPrepend(InsertBeforeIn(h, n, ks[Len(ks)], firstChild(h, n)), n, SubSeq(ks, 1, Len(ks) - 1))

\* dom(n).append(nodes)
RECURSIVE domAppend(_, _, _)
domAppend(h, n, ks) ==
  IF ks = <<>> THEN h ELSE domAppend(InsertBeforeIn(h, n, Head(ks), Null), n, Tail(ks))

\* dom(n).normalizeTextNodes(): adjacent text children of n become one text node
RECURSIVE CoalesceFrom(_, _, _)
CoalesceFrom(h, n, i) ==
  LET ks == h[n].kids
  IN IF i >= Len(ks) THEN h
     ELSE IF IsText(h, ks[i]) /\ IsText(h, ks[i + 1])
          THEN CoalesceFrom([Detach(h, ks[i + 1]) EXCEPT ![ks[i]].val = @ \o h[ks[i + 1]].val], n, i)
          ELSE CoalesceFrom(h, n, i + 1)

normalizeTextNodes(h, n) == CoalesceFrom(h, n, 1)

\* the nodes of h numbered in document order; nodes out of the tree are dropped
NewId(order, n) == IF n \in Range(order) THEN IndexOf(order, n) ELSE Null

MapIds(order, s) == [i \in 1..Len(s) |-> NewId(order, s[i])]

RenumberBy(h, order) ==
  [i \in Ids |->
     IF i <= Len(order)
     THEN [h[order[i]] EXCEPT !.kids = MapIds(order, @), !.parent = NewId(order, @)]
     ELSE Blank]

Renumber(h) == RenumberBy(h, PreOrder(h, Body))

----------------------------------------------------------------------------
(* utils.js *)

\* Array.prototype.sort with the comparator of sortByDepth (a stable insertion)
RECURSIVE InsertByDepth(_, _, _, _)
InsertByDepth(h, s, x, descending) ==
  IF s = <<>> THEN <<x>>
  ELSE LET y == s[Len(s)]
           after == IF descending THEN Depth(h, y) >= Depth(h, x) ELSE Depth(h, y) <= Depth(h, x)
       IN IF after THEN s \o <<x>>
          ELSE InsertByDepth(h, SubSeq(s, 1, Len(s) - 1), x, descending) \o <<y>>

RECURSIVE sortByDepth(_, _, _)
sortByDepth(h, arr, descending) ==
  IF arr = <<>> THEN <<>>
  ELSE InsertByDepth(h, sortByDepth(h, SubSeq(arr, 1, Len(arr) - 1), descending),
                     arr[Len(arr)], descending)

\* unique(arr): the first occurrence of every value
RECURSIVE unique(_)
unique(arr) ==
  IF arr = <<>> THEN <<>>
  ELSE LET front == unique(SubSeq(arr, 1, Len(arr) - 1))
           x == arr[Len(arr)]
       IN IF x \in Range(front) THEN front ELSE front \o <<x>>

\* range.commonAncestorContainer
CommonAncestor(h, a, b) ==
  LET up == <<a>> \o Parents(h, a)
      i  == CHOOSE i \in 1..Len(up) :
              /\ (up[i] = b \/ Contains(h, up[i], b))
              /\ \A j \in 1..(i - 1) : ~(up[j] = b \/ Contains(h, up[j], b))
  IN up[i]

\* the while loop of the endOffset === 0 branch; Null when it runs off the tree
RECURSIVE ClimbEnd(_, _, _)
ClimbEnd(h, c, ancestor) ==
  IF c = Null THEN Null
  ELSE IF previousSibling(h, c) = Null /\ parentNode(h, c) # ancestor
       THEN ClimbEnd(h, parentNode(h, c), ancestor)
       ELSE c

\* endContainer = endContainer.previousSibling, after the loop has ended on c
EndBefore(h, c) ==
  IF c = Null THEN [h |-> h, endContainer |-> Null, err |-> TRUE]
  ELSE [h |-> h, endContainer |-> previousSibling(h, c), err |-> FALSE]

\* the end boundary: [h, endContainer, err]
RefineEnd(h, r) ==
  IF r.eo = 0
  THEN EndBefore(h, ClimbEnd(h, r.ec, CommonAncestor(h, r.sc, r.ec)))
  ELSE IF IsText(h, r.ec)
       THEN [h |-> IF r.eo < Len(h[r.ec].val) THEN splitText(h, r.ec, r.eo) ELSE h,
             endContainer |-> r.ec, err |-> FALSE]
       ELSE [h |-> h, endContainer |-> childItem(h, r.ec, r.eo - 1), err |-> FALSE]

\* the start boundary stays where it is, or moves to another node
StartAt(h, startContainer, endContainer, goDeeper) ==
  [h |-> h, startContainer |-> startContainer, endContainer |-> endContainer,
   goDeeper |-> goDeeper, err |-> FALSE]

\* StartAtSplit without the line that points the end at the split-off start node
StartAtSplitKeepsEnd(h, m, endContainer) == StartAt(h, m, endContainer, TRUE)

\* the start text node has been split, m is its latter part
StartAtSplit(h, m, endContainer) ==
  StartAt(h, m, IF endContainer = previousSibling(h, m) THEN m ELSE endContainer, TRUE)

\* the start boundary, given the heap and the end container the end boundary left
RefineStart(h, r, endContainer) ==
  IF IsText(h, r.sc)
  THEN IF r.so = Len(h[r.sc].val) THEN StartAt(h, r.sc, endContainer, FALSE)
       ELSE IF r.so > 0 THEN StartAtSplit(splitText(h, r.sc, r.so), Fresh(h), endContainer)
            ELSE StartAt(h, r.sc, endContainer, TRUE)
  ELSE IF r.so < Len(h[r.sc].kids) THEN StartAt(h, childItem(h, r.sc, r.so), endContainer, TRUE)
       ELSE StartAt(h, nextSibling(h, r.sc), endContainer, TRUE)

\* the start boundary after the end boundary e
RefineAfterEnd(e, r) ==
  IF e.err THEN [h |-> e.h, startContainer |-> Null, endContainer |-> Null, goDeeper |-> TRUE,
                 err |-> TRUE]
  ELSE RefineStart(e.h, r, e.endContainer)

\* [h, startContainer, endContainer, goDeeper, err]
refineRangeBoundaries(h, r) == RefineAfterEnd(RefineEnd(h, r), r)

----------------------------------------------------------------------------
(* TextHighlighter.highlightRange *)

\* createWrapper + setAttribute(TIMESTAMP_ATTR) + cloneNode + setAttribute(DATA_ATTR)
WrapperClone(color, ts) == [kind |-> "elem", tag |-> "SPAN", val |-> <<>>, kids |-> <<>>,
                            parent |-> Null, hl |-> TRUE, color |-> color, ts |-> ts]

\* a text node is wrapped when its parent is not ignored and it is not white space only
Wrappable(h, node) == h[parentNode(h, node)].tag \notin IGNORE_TAGS /\ ~IsBlank(h[node].val)

\* highlight if a node is inside the el
InsideEl(h, nodeParent) == Contains(h, El, nodeParent) \/ nodeParent = El

\* the walk is done on the end container, unless it is about to descend into it
ReachedEnd(h, node, endContainer, goDeeper) ==
  node = endContainer /\ ~(hasChildNodes(h, endContainer) /\ goDeeper)

\* where the walk goes next: [node, goDeeper]
Advance(h, node, goDeeper) ==
  IF goDeeper /\ hasChildNodes(h, node) THEN [node |-> firstChild(h, node), goDeeper |-> goDeeper]
  ELSE IF nextSibling(h, node) # Null THEN [node |-> nextSibling(h, node), goDeeper |-> TRUE]
  ELSE [node |-> parentNode(h, node), goDeeper |-> FALSE]

\* the walk state w = [h, node, goDeeper, done, highlights, err]

\* lines 130-145: a text node met while descending is wrapped, or passed over
OnText(w, color, ts) ==
  IF ~(w.goDeeper /\ IsText(w.h, w.node)) THEN w
  ELSE IF Wrappable(w.h, w.node) /\ InsideEl(w.h, parentNode(w.h, w.node))
       THEN [w EXCEPT !.h = domWrap([w.h EXCEPT ![Fresh(w.h)] = WrapperClone(color, ts)],
                                    w.node, Fresh(w.h)),
                      !.highlights = Append(@, Fresh(w.h)),
                      !.goDeeper = FALSE]
       ELSE [w EXCEPT !.goDeeper = FALSE]

\* lines 146-148
OnEnd(w, endContainer) ==
  IF ReachedEnd(w.h, w.node, endContainer, w.goDeeper) THEN [w EXCEPT !.done = TRUE] ELSE w

\* lines 150-156: an ignored element is not entered
OnIgnored(w, endContainer) ==
  IF w.h[w.node].tag \notin IGNORE_TAGS THEN w
  ELSE IF endContainer = Null THEN [w EXCEPT !.err = TRUE]
       ELSE [w EXCEPT !.done = @ \/ parentNode(w.h, endContainer) = w.node, !.goDeeper = FALSE]

\* lines 157-165
Move(w, nx) == [w EXCEPT !.node = nx.node, !.goDeeper = nx.goDeeper]

OnMove(w) == IF w.err THEN w ELSE Move(w, Advance(w.h, w.node, w.goDeeper))

\* one pass of the do-while body
WalkStep(w, endContainer, color, ts) ==
  IF w.node = Null THEN [w EXCEPT !.err = TRUE]
  ELSE OnMove(OnIgnored(OnEnd(OnText(w, color, ts), endContainer), endContainer))

RECURSIVE Walk(_, _, _, _)
Walk(w, endContainer, color, ts) ==
  IF w.done \/ w.err THEN w ELSE Walk(WalkStep(w, endContainer, color, ts), endContainer, color, ts)

WalkResult(w) == [h |-> w.h, highlights |-> w.highlights, err |-> w.err]

\* the walk from the refined boundaries b
WalkBetween(b, color, ts) ==
  IF b.err THEN [h |-> b.h, highlights |-> <<>>, err |-> TRUE]
  ELSE WalkResult(Walk([h |-> b.h, node |-> b.startContainer, goDeeper |-> b.goDeeper,
                        done |-> FALSE, highlights |-> <<>>, err |-> FALSE],
                       b.endContainer, color, ts))

\* !range || range.collapsed
NoSelection(r) == r.sc = Null \/ (r.sc = r.ec /\ r.so = r.eo)

\* [h, highlights, err]; lines 114-116 return [] when there is no range or it is collapsed
highlightRange(h, r, color, ts) ==
  IF NoSelection(r) THEN [h |-> h, highlights |-> <<>>, err |-> FALSE]
  ELSE WalkBetween(refineRangeBoundaries(h, r), color, ts)

----------------------------------------------------------------------------
(* TextHighlighter.normalizeHighlights *)

\* flattenOnce works on f = [h, highlights, again, err]

\* lines 212-215: a last child moves out, before the parent's next sibling or the parent
MoveOutLast(f, hl, parent, parentNext) ==
  IF nextSibling(f.h, hl) # Null THEN f
  ELSE [f EXCEPT !.h = domInsertBefore(@, hl, IF parentNext # Null THEN parentNext ELSE parent),
                 !.again = TRUE]

\* lines 217-220: a first child moves out, after the parent's previous sibling or the parent
MoveOutFirst(f, hl, parent, parentPrev) ==
  IF previousSibling(f.h, hl) # Null THEN f
  ELSE [f EXCEPT !.h = domInsertAfter(@, hl, IF parentPrev # Null THEN parentPrev ELSE parent),
                 !.again = TRUE]

\* lines 222-224
DropEmpty(f, parent) ==
  IF hasChildNodes(f.h, parent) THEN f ELSE [f EXCEPT !.h = Detach(@, parent)]

\* Dissolve with the entry of the list left as it was
DissolveKeepsEntry(f, i, hl, parent) ==
  IF firstChild(f.h, hl) = Null THEN [f EXCEPT !.err = TRUE]
  ELSE [f EXCEPT !.h = Detach(InsertBeforeIn(@, parent, firstChild(@, hl), hl), hl),
                 !.again = TRUE]

\* lines 227-229: parent.replaceChild(hl.firstChild, hl); highlights[i] = parent
Dissolve(f, i, hl, parent) ==
  IF firstChild(f.h, hl) = Null THEN [f EXCEPT !.err = TRUE]
  ELSE [f EXCEPT !.h = Detach(InsertBeforeIn(@, parent, firstChild(@, hl), hl), hl),
                 !.highlights[i] = parent,
                 !.again = TRUE]

\* a FlattenIn that leaves a marker alone in a parent of its own colour
FlattenInOtherColourOnly(f, i, hl, parent, parentPrev, parentNext) ==
  IF ~haveSameColor(f.h, parent, hl)
  THEN DropEmpty(MoveOutFirst(MoveOutLast(f, hl, parent, parentNext), hl, parent, parentPrev),
                 parent)
  ELSE f

\* the marker hl, entry i, lies in the marker parent
FlattenIn(f, i, hl, parent, parentPrev, parentNext) ==
  IF ~haveSameColor(f.h, parent, hl)
  THEN DropEmpty(MoveOutFirst(MoveOutLast(f, hl, parent, parentNext), hl, parent, parentPrev),
                 parent)
  ELSE Dissolve(f, i, hl, parent)

\* the body of the forEach of flattenOnce for entry i, whose parent element is parent
FlattenUnder(f, i, parent) ==
  IF parent = Null THEN [f EXCEPT !.err = TRUE]
  ELSE IF ~isHighlight(f.h, parent) THEN f
       ELSE FlattenIn(f, i, f.highlights[i], parent, previousSibling(f.h, parent),
                      nextSibling(f.h, parent))

FlattenEntry(f, i) == FlattenUnder(f, i, parentNode(f.h, f.highlights[i]))

RECURSIVE FlattenFrom(_, _)
FlattenFrom(f, i) ==
  IF f.err \/ i > Len(f.highlights) THEN f ELSE FlattenFrom(FlattenEntry(f, i), i + 1)

\* do { again = flattenOnce() } while (again)
RECURSIVE FlattenLoop(_, _)
RECURSIVE FlattenAgain(_)
FlattenLoop(h, highlights) ==
  FlattenAgain(FlattenFrom([h |-> h, highlights |-> highlights, again |-> FALSE, err |-> FALSE], 1))
FlattenAgain(f) == IF f.err \/ ~f.again THEN f ELSE FlattenLoop(f.h, f.highlights)

\* [h, highlights, again, err]
flattenNestedHighlights(h, highlights) == FlattenLoop(h, sortByDepth(h, highlights, TRUE))

shouldMerge(h, current, node) ==
  node # Null /\ h[node].kind = "elem" /\ haveSameColor(h, current, node) /\ isHighlight(h, node)

\* MergePrev with the children of prev put after those of the highlight
MergePrevAppends(h, highlight, prev) ==
  IF shouldMerge(h, highlight, prev) THEN Detach(domAppend(h, highlight, h[prev].kids), prev)
  ELSE h

\* lines 262-265
MergePrev(h, highlight, prev) ==
  IF shouldMerge(h, highlight, prev) THEN Detach(domPrepend(h, highlight, h[prev].kids), prev)
  ELSE h

\* MergeNext that looks past one text node for the marker to absorb
MergeNextSkipsText(h, highlight, next) ==
  IF IsText(h, next) /\ shouldMerge(h, highlight, nextSibling(h, next))
  THEN Detach(domAppend(h, highlight, h[nextSibling(h, next)].kids), nextSibling(h, next))
  ELSE IF shouldMerge(h, highlight, next) THEN Detach(domAppend(h, highlight, h[next].kids), next)
  ELSE h

\* lines 266-269
MergeNext(h, highlight, next) ==
  IF shouldMerge(h, highlight, next) THEN Detach(domAppend(h, highlight, h[next].kids), next)
  ELSE h

\* the body of the forEach of mergeSiblingHighlights
MergeEntry(h, highlight) ==
  normalizeTextNodes(
    MergeNext(MergePrev(h, highlight, previousSibling(h, highlight)), highlight,
              nextSibling(h, highlight)),
    highlight)

\* what one pass of the forEach of mergeSiblingHighlights found and left: h before, h2 after
MergeSeen(h, highlight, prev, next, h2) ==
  [prevSame |-> shouldMerge(h, highlight, prev),
   nextSame |-> shouldMerge(h, highlight, next),
   textPrev |-> IF prev = Null THEN <<>> ELSE textContent(h, prev),
   text     |-> textContent(h, highlight),
   textNext |-> IF next = Null THEN <<>> ELSE textContent(h, next),
   textLeft |-> textContent(h2, highlight),
   kept     |-> Attached(h2, highlight) /\ isHighlight(h2, highlight),
   prevGone |-> prev = Null \/ ~Attached(h2, prev),
   nextGone |-> next = Null \/ ~Attached(h2, next)]

RECURSIVE MergeLog(_, _)
MergeLogNext(h, highlights, h2) ==
  <<MergeSeen(h, Head(highlights), previousSibling(h, Head(highlights)),
              nextSibling(h, Head(highlights)), h2)>> \o MergeLog(h2, Tail(highlights))

\* the passes of mergeSiblingHighlights(highlights), one record each
MergeLog(h, highlights) ==
  IF highlights = <<>> THEN <<>>
  ELSE MergeLogNext(h, highlights, MergeEntry(h, Head(highlights)))

RECURSIVE mergeSiblingHighlights(_, _)
mergeSiblingHighlights(h, highlights) ==
  IF highlights = <<>> THEN h
  ELSE mergeSiblingHighlights(MergeEntry(h, Head(highlights)), Tail(highlights))

\* position in the document, standing for offsetTop and offsetLeft (0 when not rendered)
Place(order, x) == IF x \in Range(order) THEN IndexOf(order, x) ELSE 0

RECURSIVE InsertByPlace(_, _, _)
InsertByPlace(order, s, x) ==
  IF s = <<>> THEN <<x>>
  ELSE IF Place(order, s[Len(s)]) <= Place(order, x) THEN s \o <<x>>
       ELSE InsertByPlace(order, SubSeq(s, 1, Len(s) - 1), x) \o <<s[Len(s)]>>

RECURSIVE SortByPlace(_, _)
SortByPlace(order, s) ==
  IF s = <<>> THEN <<>>
  ELSE InsertByPlace(order, SortByPlace(order, SubSeq(s, 1, Len(s) - 1)), s[Len(s)])

\* hl.parentElement ? hl : null
StillInTree(h, hl) == parentNode(h, hl) # Null

\* lines 184-189: the entries still in the tree, once each, in place order
Normalized(h, highlights, log) ==
  [h |-> h, err |-> FALSE, log |-> log,
   highlights |-> SortByPlace(PreOrder(h, Body),
                              unique(SelectSeq(highlights, LAMBDA x : StillInTree(h, x))))]

\* mergeSiblingHighlights and the rest, after flattenNestedHighlights has left f
NormalizeFlat(f) ==
  IF f.err THEN [h |-> f.h, highlights |-> <<>>, err |-> TRUE, log |-> <<>>]
  ELSE Normalized(mergeSiblingHighlights(f.h, f.highlights), f.highlights,
                  MergeLog(f.h, f.highlights))

\* [h, highlights, err, log]; log tells what the passes of mergeSiblingHighlights did
normalizeHighlights(h, highlights) == NormalizeFlat(flattenNestedHighlights(h, highlights))

----------------------------------------------------------------------------
(* TextHighlighter.getHighlights, serializeHighlights, deserializeHighlights *)

\* querySelectorAll('[data-highlighted]') under container, in document order
QueryMarkers(h, container) == SelectSeq(Tail(PreOrder(h, container)), LAMBDA n : isHighlight(h, n))

\* getHighlights({container, andSelf}), not grouped
getHighlights(h, container, andSelf) ==
  IF andSelf /\ h[container].hl THEN Append(QueryMarkers(h, container), container)
  ELSE QueryMarkers(h, container)

\* a forEach step that starts a group whenever the timestamp is not the one of the
\* group started last
ChunkedByRun(h, g, hl) ==
  IF g.order = <<>> \/ g.order[Len(g.order)] # h[hl].ts
  THEN [order |-> Append(g.order, h[hl].ts),
        chunks |-> [t \in DOMAIN g.chunks \cup {h[hl].ts} |-> <<hl>>]]
  ELSE [g EXCEPT !.chunks[h[hl].ts] = Append(@, hl)]

\* utils.js lines 108-117: one step of highlights.forEach, g is [order, chunks]
Chunked(h, g, hl) ==
  IF h[hl].ts \notin DOMAIN g.chunks
  THEN [order |-> Append(g.order, h[hl].ts),
        chunks |-> [t \in DOMAIN g.chunks \cup {h[hl].ts} |->
                      IF t = h[hl].ts THEN <<hl>> ELSE g.chunks[t]]]
  ELSE [g EXCEPT !.chunks[h[hl].ts] = Append(@, hl)]

RECURSIVE ChunkFrom(_, _, _)
ChunkFrom(h, g, highlights) ==
  IF highlights = <<>> THEN g
  ELSE ChunkFrom(h, Chunked(h, g, Head(highlights)), Tail(highlights))

\* utils.js lines 122-131: the group of a timestamp; toString is what it returns
Group(h, group, timestamp) ==
  [chunks |-> group, timestamp |-> timestamp, toString |-> TextOfSeq(h, group)]

\* utils.js lines 119-132: order.forEach
GroupsOf(h, g) == [i \in 1..Len(g.order) |-> Group(h, g.chunks[g.order[i]], g.order[i])]

groupHighlights(h, highlights) ==
  GroupsOf(h, ChunkFrom(h, [order |-> <<>>, chunks |-> <<>>], highlights))

\* a string is a sequence of characters; these are the decimal digits
Digits == <<"0", "1", "2", "3", "4", "5", "6", "7", "8", "9">>

\* Number.prototype.toString of an index
RECURSIVE ToDecimal(_)
ToDecimal(n) ==
  IF n < 10 THEN <<Digits[n + 1]>> ELSE ToDecimal(n \div 10) \o <<Digits[(n % 10) + 1]>>

\* the number a string of digits stands for when it is used as an index; -1 for no index
RECURSIVE ToIndex(_)
ToIndex(str) ==
  IF str = <<>> \/ \E i \in 1..Len(str) : str[i] \notin Range(Digits) THEN -1
  ELSE IF Len(str) = 1 THEN IndexOf(Digits, str[1]) - 1
       ELSE ToIndex(SubSeq(str, 1, Len(str) - 1)) * 10 + IndexOf(Digits, str[Len(str)]) - 1

\* hlPath.join(':')
RECURSIVE JoinPath(_)
JoinPath(path) ==
  IF path = <<>> THEN <<>>
  ELSE IF Len(path) = 1 THEN ToDecimal(path[1])
       ELSE JoinPath(SubSeq(path, 1, Len(path) - 1)) \o <<":">> \o ToDecimal(path[Len(path)])

\* hlDescriptor[2].split(':')
RECURSIVE SplitPath(_)
SplitPath(str) ==
  IF ":" \notin Range(str) THEN <<str>>
  ELSE <<SubSeq(str, 1, IndexOf(str, ":") - 1)>>
         \o SplitPath(SubSeq(str, IndexOf(str, ":") + 1, Len(str)))

\* getElementPath(el, refElement): the child indices from the anchor down to el
RECURSIVE getElementPath(_, _)
getElementPath(h, el) ==
  (IF parentNode(h, el) = El THEN <<>> ELSE getElementPath(h, parentNode(h, el)))
    \o <<ChildIndex(h, el) - 1>>

\* the length of the text node right before the highlight, or 0
OffsetOf(h, prev) == IF IsText(h, prev) THEN Len(h[prev].val) ELSE 0

\* wrapper.outerHTML of the emptied clone: the element without its children
OuterHTML(h, highlight) == [tag |-> h[highlight].tag, color |-> h[highlight].color,
                            ts |-> h[highlight].ts, hl |-> h[highlight].hl]

\* dom().fromHTML(hl.wrapper)[0]
FromHTML(html) == [kind |-> "elem", tag |-> html.tag, val |-> <<>>, kids |-> <<>>,
                   parent |-> Null, hl |-> html.hl, color |-> html.color, ts |-> html.ts]

\* one descriptor: [wrapper, text, path, offset, length]
Descriptor(h, highlight) ==
  [wrapper |-> OuterHTML(h, highlight),
   text    |-> textContent(h, highlight),
   path    |-> JoinPath(getElementPath(h, highlight)),
   offset  |-> OffsetOf(h, previousSibling(h, highlight)),
   length  |-> Len(textContent(h, highlight))]

DescriptorsOf(h, highlights) == [i \in 1..Len(highlights) |-> Descriptor(h, highlights[i])]

\* a serializeHighlights() that puts the deepest markers first
serializeDeepestFirst(h) ==
  DescriptorsOf(h, sortByDepth(h, getHighlights(h, El, TRUE), TRUE))

\* serializeHighlights(): the descriptors, the less deep markers first
serializeHighlights(h) == DescriptorsOf(h, sortByDepth(h, getHighlights(h, El, TRUE), FALSE))

\* while ((idx = hl.path.shift())) node = node.childNodes[idx]; an empty string stops it
RECURSIVE Descend(_, _, _)
Descend(h, node, path) ==
  IF path = <<>> \/ Head(path) = <<>> THEN node
  ELSE IF node = Null THEN Null
       ELSE Descend(h, childItem(h, node, ToIndex(Head(path))), Tail(path))

\* lines 451-455: the child at elIndex, or the text node right before it
ChildAt(h, node, elIndex) ==
  IF node = Null THEN Null
  ELSE IF IsText(h, childItem(h, node, elIndex - 1)) THEN childItem(h, node, elIndex - 1)
       ELSE childItem(h, node, elIndex)

\* lines 441-455, path is the split path
Locate(h, path) ==
  ChildAt(h, Descend(h, El, SubSeq(path, 1, Len(path) - 1)), ToIndex(path[Len(path)]))

\* !node.nodeValue: an element has none, a text node may have the empty one
NoValue(h, n) == h[n].kind = "elem" \/ h[n].val = <<>>

\* dom(n).remove() of a node nothing refers to any more: its place in the heap is free again
Discard(h, n) == [Detach(h, n) EXCEPT ![n] = Blank]

\* lines 459-461 and 463-465; s = [h, highlights]
DropIfEmpty(s, sibling) ==
  IF sibling # Null /\ NoValue(s.h, sibling) THEN [s EXCEPT !.h = Discard(@, sibling)] ELSE s

\* lines 467-468; a wrapper that is no markup gives no element to wrap with
WrapRestored(s, hl, hlNode) ==
  IF hl.wrapper.t # "html" THEN s
  ELSE [s EXCEPT !.h = domWrap([@ EXCEPT ![Fresh(@)] = FromHTML(hl.wrapper.v)], hlNode, Fresh(@)),
                 !.highlights = Append(@, Fresh(s.h))]

\* lines 459-468, after both splits
AfterSplits(s, hl, hlNode) ==
  WrapRestored(DropIfEmpty(DropIfEmpty(s, nextSibling(s.h, hlNode)),
                           previousSibling(s.h, hlNode)),
               hl, hlNode)

\* line 457: hlNode.splitText(hl.length) throws beyond the end of hlNode
SplitLength(s, hl, hlNode) ==
  IF hl.length > Len(s.h[hlNode].val) THEN s
  ELSE AfterSplits([s EXCEPT !.h = splitText(@, hlNode, hl.length)], hl, hlNode)

\* line 456: node.splitText(hl.offset) throws when node is no text node or is too short
SplitOffset(s, hl, node) ==
  IF ~IsText(s.h, node) THEN s
  ELSE IF hl.offset > Len(s.h[node].val) THEN s
       ELSE SplitLength([s EXCEPT !.h = splitText(@, node, hl.offset)], hl, Fresh(s.h))

\* the text of a JSON document is a sequence of tokens: brackets, commas and values
Open == [t |-> "["]
Close == [t |-> "]"]
Comma == [t |-> ","]
Num(n) == [t |-> "num", v |-> n]
Str(str) == [t |-> "str", v |-> str]
Html(wrapper) == [t |-> "html", v |-> wrapper]

\* a word that is no JSON value
Word == [t |-> "word"]

\* what reading an index past the end of an array gives
Undefined == [t |-> "undefined"]

\* an entry of the top-level array: an array of values, or one value
ArrayOf(items) == [arr |-> TRUE, items |-> items]
Scalar(item) == [arr |-> FALSE, items |-> <<item>>]

\* lines 400-406: the array pushed for one highlight
Tuple(d) == ArrayOf(<<Html(d.wrapper), Str(d.text), Str(d.path), Num(d.offset), Num(d.length)>>)

RECURSIVE Commas(_)
Commas(items) ==
  IF Len(items) <= 1 THEN items ELSE <<Head(items), Comma>> \o Commas(Tail(items))

\* JSON.stringify of one entry
StringifyOne(e) == IF e.arr THEN <<Open>> \o Commas(e.items) \o <<Close>> ELSE e.items

RECURSIVE StringifyAll(_)
StringifyAll(entries) ==
  IF entries = <<>> THEN <<>>
  ELSE IF Len(entries) = 1 THEN StringifyOne(entries[1])
       ELSE StringifyOne(Head(entries)) \o <<Comma>> \o StringifyAll(Tail(entries))

\* JSON.stringify of an array of entries
Encode(entries) == <<Open>> \o StringifyAll(entries) \o <<Close>>

\* line 409: JSON.stringify(hlDescriptors)
JSONStringify(hlDescriptors) ==
  Encode([i \in 1..Len(hlDescriptors) |-> Tuple(hlDescriptors[i])])

NoParse == [ok |-> FALSE, items |-> <<>>, next |-> 0]

\* JSON.parse from token i on, inside an array: [ok, items, next]. state tells what came
\* last ("start", "value" or "comma"); inner tells that the array is an entry of the
\* top-level array (the texts read here hold no array inside such an entry)
RECURSIVE ParseArray(_, _, _, _, _)
RECURSIVE ParseEntry(_, _, _, _)
ParseArray(json, i, state, acc, inner) ==
  IF i > Len(json) THEN NoParse
  ELSE IF json[i].t = "]"
       THEN IF state = "comma" THEN NoParse ELSE [ok |-> TRUE, items |-> acc, next |-> i + 1]
  ELSE IF json[i].t = ","
       THEN IF state = "value" THEN ParseArray(json, i + 1, "comma", acc, inner) ELSE NoParse
  ELSE IF state = "value" \/ json[i].t = "word" THEN NoParse
  ELSE IF json[i].t = "["
       THEN IF inner THEN NoParse
            ELSE ParseEntry(json, ParseArray(json, i + 1, "start", <<>>, TRUE), acc, inner)
  ELSE ParseArray(json, i + 1, "value",
                  Append(acc, IF inner THEN json[i] ELSE Scalar(json[i])), inner)
ParseEntry(json, sub, acc, inner) ==
  IF ~sub.ok THEN NoParse
  ELSE ParseArray(json, sub.next, "value", Append(acc, ArrayOf(sub.items)), inner)

\* the top-level array, read to the end of the text
ParsedArray(json, p) ==
  [ok |-> p.ok /\ p.next = Len(json) + 1, array |-> TRUE, items |-> p.items]

\* JSONParse that gives a lone value as an array of that value
JSONParseWrapsValue(json) ==
  IF json = <<>> THEN [ok |-> FALSE, array |-> FALSE, items |-> <<>>]
  ELSE IF json[1].t = "[" THEN ParsedArray(json, ParseArray(json, 2, "start", <<>>, FALSE))
  ELSE [ok |-> Len(json) = 1 /\ json[1].t \in {"num", "str", "html"}, array |-> TRUE,
        items |-> <<Scalar(json[1])>>]

\* line 428: JSON.parse(json): [ok, array, items]
JSONParse(json) ==
  IF json = <<>> THEN [ok |-> FALSE, array |-> FALSE, items |-> <<>>]
  ELSE IF json[1].t = "[" THEN ParsedArray(json, ParseArray(json, 2, "start", <<>>, FALSE))
  ELSE [ok |-> Len(json) = 1 /\ json[1].t \in {"num", "str", "html"}, array |-> FALSE,
        items |-> <<>>]

\* hlDescriptor[i - 1]: a number has no such property, an array may be too short
Field(e, i) == IF e.arr /\ i <= Len(e.items) THEN e.items[i] ELSE Undefined

\* the offset splitText works with: undefined counts as 0
ToUnsigned(item) == IF item.t = "num" THEN item.v ELSE 0

\* lines 434-440: the object hl
Decoded(e) ==
  [wrapper |-> Field(e, 1), path |-> SplitPath(Field(e, 3).v),
   offset |-> ToUnsigned(Field(e, 4)), length |-> ToUnsigned(Field(e, 5))]

\* lines 441-468
Located(s, hl) == SplitOffset(s, hl, Locate(s.h, hl.path))

\* deserializationFn inside its try block: what has thrown leaves what it has done;
\* hlDescriptor[2].split throws when hlDescriptor[2] is no string
deserializationFn(s, e) == IF Field(e, 3).t # "str" THEN s ELSE Located(s, Decoded(e))

\* lines 471-479 for one descriptor; s2 is what deserializationFn left of s
Tried(s, s2) ==
  [s2 EXCEPT !.log = Append(@, [ok |-> Len(s2.highlights) > Len(s.highlights),
                                made |-> IF Len(s2.highlights) > Len(s.highlights)
                                         THEN s2.highlights[Len(s2.highlights)] ELSE Null])]

\* DeserializeFrom that gives up at the first descriptor that has thrown
RECURSIVE DeserializeUntilThrow(_, _)
DeserializeUntilThrow(s, hlDescriptors) ==
  IF hlDescriptors = <<>> THEN s
  ELSE IF Len(deserializationFn(s, Head(hlDescriptors)).highlights) = Len(s.highlights)
       THEN Tried(s, deserializationFn(s, Head(hlDescriptors)))
       ELSE DeserializeUntilThrow(Tried(s, deserializationFn(s, Head(hlDescriptors))),
                                  Tail(hlDescriptors))

RECURSIVE DeserializeFrom(_, _)
DeserializeFrom(s, hlDescriptors) ==
  IF hlDescriptors = <<>> THEN s
  ELSE DeserializeFrom(Tried(s, deserializationFn(s, Head(hlDescriptors))), Tail(hlDescriptors))

\* DeserializeParsed that returns no marker where it should throw
DeserializeParsedQuietly(h, parsed) ==
  IF ~parsed.ok \/ ~parsed.array
  THEN [h |-> h, highlights |-> <<>>, log |-> <<>>, thrown |-> FALSE]
  ELSE DeserializeFrom([h |-> h, highlights |-> <<>>, log |-> <<>>, thrown |-> FALSE],
                       parsed.items)

\* lines 424-481 once JSON.parse has returned parsed; forEach is a method of arrays only
DeserializeParsed(h, parsed) ==
  IF ~parsed.ok \/ ~parsed.array
  THEN [h |-> h, highlights |-> <<>>, log |-> <<>>, thrown |-> TRUE]
  ELSE DeserializeFrom([h |-> h, highlights |-> <<>>, log |-> <<>>, thrown |-> FALSE],
                       parsed.items)

\* deserializeHighlights(json) on the tree h: [h, highlights, log, thrown]
deserializeHighlights(h, json) ==
  IF json = <<>> THEN [h |-> h, highlights |-> <<>>, log |-> <<>>, thrown |-> FALSE]
  ELSE DeserializeParsed(h, JSONParse(json))

\* the document as the page loads it again: no markers, no split text
RECURSIVE UnwrapAll(_, _)
UnwrapAll(h, ms) == IF ms = <<>> THEN h ELSE UnwrapAll(domUnwrap(h, Head(ms)), Tail(ms))

RECURSIVE NormalizeAll(_, _)
NormalizeAll(h, ns) ==
  IF ns = <<>> THEN h ELSE NormalizeAll(normalizeTextNodes(h, Head(ns)), Tail(ns))

MergeTextIn(h) == NormalizeAll(h, PreOrder(h, Body))

Reloaded(h) == Renumber(MergeTextIn(UnwrapAll(h, QueryMarkers(h, Body))))

----------------------------------------------------------------------------
(* TextHighlighter.removeHighlights *)

\* node.nodeValue = v: an element has no value to set
SetValue(h, n, v) == IF h[n].kind = "text" THEN [h EXCEPT ![n].val = v] ELSE h

\* lines 309-312
JoinPrevText(h, textNode, prev) ==
  IF IsText(h, prev) THEN Detach(SetValue(h, textNode, h[prev].val \o h[textNode].val), prev)
  ELSE h

\* lines 313-316
JoinNextText(h, textNode, next) ==
  IF IsText(h, next) THEN Detach(SetValue(h, textNode, h[textNode].val \o h[next].val), next)
  ELSE h

\* lines 305-317: the forEach over the nodes dom(hl).unwrap() has returned
RECURSIVE JoinTexts(_, _)
JoinTexts(h, textNodes) ==
  IF textNodes = <<>> THEN h
  ELSE JoinTexts(JoinNextText(JoinPrevText(h, Head(textNodes), previousSibling(h, Head(textNodes))),
                              Head(textNodes), nextSibling(h, Head(textNodes))),
                 Tail(textNodes))

\* line 303: this.options.onRemoveHighlight(hl) === true; the hook answers false for keep
OnRemoveAllows(hl, keep) == hl \notin keep

\* lines 303-318
RemoveOne(h, hl, keep) ==
  IF OnRemoveAllows(hl, keep) THEN JoinTexts(domUnwrap(h, hl), h[hl].kids) ELSE h

RECURSIVE RemoveEach(_, _, _)
RemoveEach(h, highlights, keep) ==
  IF highlights = <<>> THEN h
  ELSE RemoveEach(RemoveOne(h, Head(highlights), keep), Tail(highlights), keep)

\* line 297: element || this.el
ContainerOf(element) == IF element = Null THEN El ELSE element

\* the markers under the container alone, as with andSelf: false
CollectedBelow(h, element) == sortByDepth(h, QueryMarkers(h, ContainerOf(element)), TRUE)

\* lines 298-300: the markers the hook is asked about, in the order it is asked
CollectedFor(h, element) == sortByDepth(h, getHighlights(h, ContainerOf(element), TRUE), TRUE)

\* removeHighlights(element); element = Null is the call without an argument
removeHighlights(h, element, keep) == RemoveEach(h, CollectedFor(h, element), keep)

----------------------------------------------------------------------------
(* The selection: every non-collapsed range with both boundaries in the anchor *)

RECURSIVE TokLen(_, _)
RECURSIVE SumTok(_, _, _)
\* a node takes one opening and one closing place, a character one place
TokLen(h, n) == IF h[n].kind = "text" THEN Len(h[n].val) + 2 ELSE SumTok(h, h[n].kids, Len(h[n].kids)) + 2
SumTok(h, ks, k) == IF k = 0 THEN 0 ELSE SumTok(h, ks, k - 1) + TokLen(h, ks[k])

RECURSIVE StartTok(_, _)
StartTok(h, n) ==
  IF h[n].parent = Null THEN 0
  ELSE StartTok(h, h[n].parent) + 1 + SumTok(h, h[h[n].parent].kids, ChildIndex(h, n) - 1)

\* the place of the boundary point (n, o) in document order
Pos(h, n, o) == StartTok(h, n) + 1 + (IF h[n].kind = "text" THEN o ELSE SumTok(h, h[n].kids, o))

NodeLength(h, n) == IF h[n].kind = "text" THEN Len(h[n].val) ELSE Len(h[n].kids)

InAnchor(h) == Range(PreOrder(h, El))

Ranges(h) ==
  LET pts == UNION {{[n |-> n, o |-> o, at |-> Pos(h, n, o)] : o \in 0..NodeLength(h, n)} :
                      n \in InAnchor(h)}
  IN {[sc |-> q[1].n, so |-> q[1].o, ec |-> q[2].n, eo |-> q[2].o] :
        q \in {q \in pts \X pts : q[1].at < q[2].at}}

\* the selections whose boundaries both lie inside a text node, not at its ends
InnerRanges(h) ==
  {r \in Ranges(h) : /\ IsText(h, r.sc) /\ 0 < r.so /\ r.so < Len(h[r.sc].val)
                     /\ IsText(h, r.ec) /\ 0 < r.eo /\ r.eo < Len(h[r.ec].val)}

NoRange == [sc |-> Null, so |-> 0, ec |-> Null, eo |-> 0]

----------------------------------------------------------------------------
(* State *)

VARIABLES
  dom,    \* the document tree
  color,  \* this.options.color
  ops,    \* operations that read the clock so far: the timestamp of the last one
  limit,  \* what a behaviour may do: how many operations, which selections, how long a list
  host,   \* the page around the highlighter: what the host has done to it so far
  pre,    \* the document tree before the last operation
  last    \* the last operation: its input, what it returned, what it called

vars == <<dom, color, ops, limit, host, pre, last>>

Idle == [op |-> "none", r |-> NoRange, color |-> "", before |-> TRUE, wrapped |-> {},
         result |-> <<>>, called |-> FALSE, thrown |-> FALSE,
         element |-> Null, keep |-> {}, asked |-> <<>>, after |-> <<>>,
         given |-> <<>>, log |-> <<>>, faults |-> <<>>, text |-> "",
         andSelf |-> FALSE, grouped |-> FALSE, groups |-> <<>>, json |-> <<>>,
         find |-> <<>>, trail |-> <<>>, window |-> <<>>]

\* <p>a bc</p>
DocPlain ==
  [i \in Ids |-> CASE i = Body -> ElemNode("BODY", <<El>>, Null)
                   [] i = El -> ElemNode("P", <<3>>, Body)
                   [] i = 3 -> TextNode(<<1, -2, 3, 4>>, El)
                   [] OTHER -> Blank]

\* <p>a<b>b</b>c</p>
DocNested ==
  [i \in Ids |-> CASE i = Body -> ElemNode("BODY", <<El>>, Null)
                   [] i = El -> ElemNode("P", <<3, 4, 6>>, Body)
                   [] i = 3 -> TextNode(<<1>>, El)
                   [] i = 4 -> ElemNode("B", <<5>>, El)
                   [] i = 5 -> TextNode(<<2>>, 4)
                   [] i = 6 -> TextNode(<<3>>, El)
                   [] OTHER -> Blank]

\* <p><b>ab</b>cd</p>
DocBold ==
  [i \in Ids |-> CASE i = Body -> ElemNode("BODY", <<El>>, Null)
                   [] i = El -> ElemNode("P", <<3, 5>>, Body)
                   [] i = 3 -> ElemNode("B", <<4>>, El)
                   [] i = 4 -> TextNode(<<1, 2>>, 3)
                   [] i = 5 -> TextNode(<<3, 4>>, El)
                   [] OTHER -> Blank]

\* <p>ab cd</p>
DocWords ==
  [i \in Ids |-> CASE i = Body -> ElemNode("BODY", <<El>>, Null)
                   [] i = El -> ElemNode("P", <<3>>, Body)
                   [] i = 3 -> TextNode(<<1, 2, -3, 4, 5>>, El)
                   [] OTHER -> Blank]

\* <p>abcdefg</p>
DocLong ==
  [i \in Ids |-> CASE i = Body -> ElemNode("BODY", <<El>>, Null)
                   [] i = El -> ElemNode("P", <<3>>, Body)
                   [] i = 3 -> TextNode(<<1, 2, 3, 4, 5, 6, 7>>, El)
                   [] OTHER -> Blank]

\* <p>ab d f</p>
DocSpaced ==
  [i \in Ids |-> CASE i = Body -> ElemNode("BODY", <<El>>, Null)
                   [] i = El -> ElemNode("P", <<3>>, Body)
                   [] i = 3 -> TextNode(<<1, 2, -3, 4, -5, 6>>, El)
                   [] OTHER -> Blank]

\* <p>a<button>b<i>c</i></button>d</p>
DocIgnore ==
  [i \in Ids |-> CASE i = Body -> ElemNode("BODY", <<El>>, Null)
                   [] i = El -> ElemNode("P", <<3, 4, 8>>, Body)
                   [] i = 3 -> TextNode(<<1>>, El)
                   [] i = 4 -> ElemNode("BUTTON", <<5, 6>>, El)
                   [] i = 5 -> TextNode(<<2>>, 4)
                   [] i = 6 -> ElemNode("I", <<7>>, 4)
                   [] i = 7 -> TextNode(<<3>>, 6)
                   [] i = 8 -> TextNode(<<4>>, El)
                   [] OTHER -> Blank]

\* the anchor as the page made it: no class, no listener, no function bound yet
Bare == [decodes |-> 0, listeners |-> {}, bound |-> 0, contextClass |-> FALSE,
         destroyed |-> FALSE]

\* scope.highlightHandler.bind(scope): a function object that did not exist before
Bind(hs) == [hs EXCEPT !.bound = @ + 1]

\* el.addEventListener(type, fn) with the function bound last
addEventListener(hs, type) ==
  [hs EXCEPT !.listeners = @ \cup {[type |-> type, fn |-> hs.bound]}]

\* el.removeEventListener(type, fn) with the function bound last: it takes away the
\* listener of this type that is this very function object, if there is one
removeEventListener(hs, type) ==
  [hs EXCEPT !.listeners = @ \ {[type |-> type, fn |-> hs.bound]}]

bindEvents(hs) ==
  addEventListener(Bind(addEventListener(Bind(hs), "mouseup")), "touchend")

unbindEvents(hs) ==
  removeEventListener(Bind(removeEventListener(Bind(hs), "mouseup")), "touchend")

\* dom(this.el).addClass(this.options.contextClass)
addClass(hs) == [hs EXCEPT !.contextClass = TRUE]

\* dom(this.el).removeClass(this.options.contextClass)
removeClass(hs) == [hs EXCEPT !.contextClass = FALSE]

\* new TextHighlighter(element) on the bare anchor
Constructed == bindEvents(addClass(Bare))

\* destroy()
destroy(hs) == [removeClass(unbindEvents(hs)) EXCEPT !.destroyed = TRUE]

InitWith(docs, n, inner, len) ==
  /\ dom \in docs
  /\ color = "yellow"
  /\ ops = 0
  /\ limit = [ops |-> n, inner |-> inner, list |-> len]
  /\ host = Constructed
  /\ pre = dom
  /\ last = Idle

\* one plain paragraph, several operations
Init == InitWith({DocPlain}, MaxOps, FALSE, 1)

\* structured paragraphs, one operation
InitWalk == InitWith({DocWords, DocNested, DocIgnore}, MaxWalkOps, FALSE, 1)

\* one longer paragraph, selections that start and end inside a text node
InitDeep == InitWith({DocLong}, MaxDeepOps, TRUE, 1)

\* one plain paragraph, the host passes lists of several markers to the normalizer
InitLists == InitWith({DocPlain}, MaxOps, FALSE, MaxList)

\* one paragraph of words, selections that start and end inside a text node
InitSpans == InitWith({DocSpaced}, MaxSpanOps, TRUE, 1)

\* paragraphs of words, selections inside text nodes; the host may damage a text
InitCodec == InitWith({DocSpaced, DocBold}, MaxCodecOps, TRUE, 1)

\* plain and structured paragraphs; the host may call highlightRange itself
InitRange == InitWith({DocPlain, DocNested}, MaxRangeOps, FALSE, 1)

\* setColor(color)
SetColor(c) ==
  /\ last.op = "none"
  /\ c # color
  /\ color' = c
  /\ UNCHANGED <<dom, ops, limit, host, pre, last>>

\* the call has returned to the host's event loop: nothing of it is left but the tree
Return ==
  /\ last.op # "none"
  /\ last' = Idle
  /\ pre' = dom
  /\ UNCHANGED <<dom, color, ops, limit, host>>

\* the characters inside the nodes of list s
CharsIn(h, s) == UNION {SeqToSet(textContent(h, m)) : m \in Range(s)}

\* line 96: normalizeHighlights(createdHighlights), x is what highlightRange left
NormalizeCreated(x, wrapped) ==
  IF x.err THEN [h |-> x.h, highlights |-> <<>>, err |-> TRUE, wrapped |-> wrapped, log |-> <<>>]
  ELSE [h |-> x.h, highlights |-> x.highlights, err |-> FALSE, wrapped |-> wrapped,
        log |-> x.log]

WithWrapped(x, wrapped) ==
  NormalizeCreated(IF x.err THEN x ELSE normalizeHighlights(x.h, x.highlights), wrapped)

\* lines 95-96: [h, highlights, err, wrapped, log]
HighlightAndNormalize(x) == WithWrapped(x, CharsIn(x.h, x.highlights))

\* the document and the record of the call, n is what lines 95-96 left
HighlightDone(r, before, n) ==
  /\ dom' = Renumber(n.h)
  /\ last' = [Idle EXCEPT !.op = "highlight", !.r = r, !.color = color, !.before = before,
                          !.wrapped = n.wrapped, !.log = n.log,
                          !.result = MapIds(PreOrder(n.h, Body), n.highlights),
                          !.called = ~n.err, !.thrown = n.err]

\* the document and the record of a call of highlightRange, x is what it left
RangeDone(r, x) ==
  /\ dom' = Renumber(x.h)
  /\ last' = [Idle EXCEPT !.op = "range", !.r = r, !.color = color,
                          !.wrapped = CharsIn(x.h, x.highlights),
                          !.result = MapIds(PreOrder(x.h, Body), x.highlights),
                          !.thrown = x.err]

\* the host calls highlightRange(range, wrapper) with a wrapper of the colour in use
HighlightRange(r) ==
  /\ last.op = "none"
  /\ ops < limit.ops
  /\ pre' = dom
  /\ ops' = ops + 1
  /\ UNCHANGED <<color, limit, host>>
  /\ RangeDone(r, highlightRange(dom, r, color, ops + 1))

\* a doHighlight() that goes on whatever onBeforeHighlight has answered
GoesOnAfterVeto(before) == TRUE

\* line 90: this.options.onBeforeHighlight(range) === true
GoesOn(before) == before = TRUE

\* doHighlight() with the selection r; before is the answer of onBeforeHighlight
DoHighlight(r, before) ==
  /\ last.op = "none"
  /\ ops < limit.ops
  /\ pre' = dom
  /\ UNCHANGED <<color, limit, host>>
  /\ IF ~GoesOn(before)
     THEN /\ dom' = dom
          /\ ops' = ops
          /\ last' = [Idle EXCEPT !.op = "highlight", !.r = r, !.color = color, !.before = FALSE]
     ELSE /\ ops' = ops + 1
          /\ HighlightDone(r, before, HighlightAndNormalize(highlightRange(dom, r, color, ops + 1)))

\* the document and the record of the call, s is what deserializeHighlights left
RestoreDone(s) ==
  /\ dom' = Renumber(s.h)
  /\ last' = [Idle EXCEPT !.op = "restore",
                          !.result = MapIds(PreOrder(s.h, Body), s.highlights)]

\* serializeHighlights(), then deserializeHighlights(json) after the page has loaded again
Restore ==
  /\ last.op = "none"
  /\ pre' = dom
  /\ UNCHANGED <<color, ops, limit, host>>
  /\ RestoreDone(deserializeHighlights(Reloaded(dom), JSONStringify(serializeHighlights(dom))))

\* what the host has done to one descriptor of a serialized text before passing it on
Faults == {"shape", "number", "path", "offset", "length", "short", "long"}

\* the entry of the JSON array that stands for the descriptor d with the fault
Damaged(d, fault) ==
  CASE fault = "shape" -> ArrayOf(<<Num(1)>>)
    [] fault = "number" -> Scalar(Num(1))
    [] fault = "path" -> Tuple([d EXCEPT !.path = ToDecimal(TooFar)])
    [] fault = "offset" -> Tuple([d EXCEPT !.offset = TooFar])
    [] fault = "length" -> Tuple([d EXCEPT !.length = TooFar])
    [] fault = "short" -> ArrayOf(SubSeq(Tuple(d).items, 1, 3))
    [] fault = "long" -> ArrayOf(Append(Tuple(d).items, Num(0)))
    [] OTHER -> Tuple(d)

\* the entries for hlDescriptors, entry k with the fault
DamagedAt(hlDescriptors, k, fault) ==
  [i \in 1..Len(hlDescriptors) |->
     Damaged(hlDescriptors[i], IF i = k THEN fault ELSE "none")]

\* texts that are no array of descriptors: not json, [ , [1,] , 1 , [] and the empty string
Texts ==
  [word |-> <<Word, Word>>, unclosed |-> <<Open>>, comma |-> <<Open, Num(1), Comma, Close>>,
   number |-> <<Num(1)>>, none |-> <<Open, Close>>, empty |-> <<>>]

\* the document and the record of a call of deserializeHighlights, s is what it left
DecodeDone(s, faults, text) ==
  /\ dom' = Renumber(s.h)
  /\ last' = [Idle EXCEPT !.op = "decode", !.faults = faults, !.text = text,
                          !.thrown = s.thrown,
                          !.result = MapIds(PreOrder(s.h, Body), s.highlights),
                          !.log = [i \in 1..Len(s.log) |->
                                     [ok |-> s.log[i].ok,
                                      made |-> NewId(PreOrder(s.h, Body), s.log[i].made)]]]

\* deserializeHighlights(json) on the tree h
DecodeOn(h, json, faults, text) ==
  /\ pre' = h
  /\ DecodeDone(deserializeHighlights(h, json), faults, text)

\* serializeHighlights(), the host damages descriptor k of the text, then
\* deserializeHighlights(json) after the page has loaded again; a behaviour does this
\* at most MaxDecodes times
RestoreDamaged(k, fault) ==
  /\ last.op = "none"
  /\ host.decodes < MaxDecodes
  /\ k \in 1..Len(getHighlights(dom, El, TRUE))
  /\ host' = [host EXCEPT !.decodes = @ + 1]
  /\ UNCHANGED <<color, ops, limit>>
  /\ DecodeOn(Reloaded(dom), Encode(DamagedAt(serializeHighlights(dom), k, fault)),
              [i \in 1..Len(getHighlights(dom, El, TRUE)) |-> IF i = k THEN fault ELSE "none"],
              "array")

\* deserializeHighlights(json) with a text that is no array of descriptors
RestoreText(text) ==
  /\ last.op = "none"
  /\ UNCHANGED <<color, ops, limit, host>>
  /\ DecodeOn(dom, Texts[text], <<>>, text)

\* the document and the record of the call, h is the tree removeHighlights left
RemoveDone(element, keep, h) ==
  /\ dom' = Renumber(h)
  /\ last' = [Idle EXCEPT !.op = "remove", !.element = element, !.keep = keep,
                          !.asked = CollectedFor(dom, element),
                          !.after = [m \in Range(QueryMarkers(dom, Body)) |->
                                       NewId(PreOrder(h, Body), m)]]

\* removeHighlights(element), onRemoveHighlight answers false for the markers of keep
RemoveHighlights(element, keep) ==
  /\ last.op = "none"
  /\ pre' = dom
  /\ UNCHANGED <<color, ops, limit, host>>
  /\ RemoveDone(element, keep, removeHighlights(dom, element, keep))

\* the elements removeHighlights can be called with: none, or an element of the anchor
Elements ==
  IF last.op = "none"
  THEN {Null} \cup {n \in Range(PreOrder(dom, El)) : dom[n].kind = "elem"}
  ELSE {}

\* the document and the record of the call, h is the tree mergeSiblingHighlights left
MergeDone(highlights, h) ==
  /\ dom' = Renumber(h)
  /\ last' = [Idle EXCEPT !.op = "merge", !.given = highlights,
                          !.log = MergeLog(dom, highlights)]

\* the host calls mergeSiblingHighlights(highlights)
MergeSiblingHighlights(highlights) ==
  /\ last.op = "none"
  /\ pre' = dom
  /\ UNCHANGED <<color, ops, limit, host>>
  /\ MergeDone(highlights, mergeSiblingHighlights(dom, highlights))

\* the document and the record of the call, n is what normalizeHighlights left
NormalizeDone(op, highlights, n) ==
  /\ dom' = Renumber(n.h)
  /\ last' = [Idle EXCEPT !.op = op, !.given = highlights,
                          !.result = MapIds(PreOrder(n.h, Body), n.highlights),
                          !.thrown = n.err, !.log = n.log]

\* the host calls normalizeHighlights(highlights)
NormalizeHighlights(highlights) ==
  /\ last.op = "none"
  /\ pre' = dom
  /\ UNCHANGED <<color, ops, limit, host>>
  /\ NormalizeDone("normalize", highlights, normalizeHighlights(dom, highlights))

\* the host calls normalizeHighlights on the list the last call of it has returned
NormalizeAgain ==
  /\ last.op = "normalize"
  /\ ~last.thrown
  /\ pre' = dom
  /\ UNCHANGED <<color, ops, limit, host>>
  /\ NormalizeDone("renormalize", last.result, normalizeHighlights(dom, last.result))

\* the lists of up to k different markers of the anchor
ListsOf(ms, k) ==
  UNION {{s \in [1..n -> ms] : \A i, j \in 1..n : s[i] = s[j] => i = j} : n \in 1..k}

\* the lists the host can pass while the highlighter is idle
Lists == IF last.op = "none" THEN ListsOf(Range(QueryMarkers(dom, El)), limit.list) ELSE {}

\* the selections the user can make while the highlighter is idle
Selections ==
  IF last.op = "none" /\ ops < limit.ops
  THEN IF limit.inner THEN InnerRanges(dom) ELSE Ranges(dom)
  ELSE {}

Next ==
  \/ Return
  \/ Restore
  \/ \E c \in Colors : SetColor(c)
  \/ \E r \in Selections, before \in BOOLEAN : DoHighlight(r, before)
  \/ \E highlights \in Lists : MergeSiblingHighlights(highlights)
  \/ \E highlights \in Lists : NormalizeHighlights(highlights)
  \/ NormalizeAgain
  \/ \E element \in Elements :
       \E keep \in SUBSET Range(CollectedFor(dom, element)) : RemoveHighlights(element, keep)

Spec == Init /\ [][Next]_vars

SpecWalk == InitWalk /\ [][Next]_vars

SpecDeep == InitDeep /\ [][Next]_vars

SpecLists == InitLists /\ [][Next]_vars

SpecSpans == InitSpans /\ [][Next]_vars

\* a collapsed range at the start of the anchor
Caret == [sc |-> El, so |-> 0, ec |-> El, eo |-> 0]

\* the behaviours in which the host also calls highlightRange itself, with any range or none
NextRange ==
  \/ Next
  \/ \E r \in Ranges(dom) \cup {Caret, NoRange} : HighlightRange(r)

SpecRange == InitRange /\ [][NextRange]_vars

\* the host calls destroy()
Destroy ==
  /\ last.op = "none"
  /\ ~host.destroyed
  /\ host' = destroy(host)
  /\ pre' = dom
  /\ last' = [Idle EXCEPT !.op = "destroy"]
  /\ UNCHANGED <<dom, color, ops, limit>>

\* the listeners of the anchor an event of this type runs
Listening(type) == {l \in host.listeners : l.type = type}

\* an event of this type on the anchor while r is selected: every listener of the type
\* runs highlightHandler, which runs doHighlight(); there is never more than one
Dispatch(type, r, before) ==
  /\ Listening(type) # {}
  /\ DoHighlight(r, before)

\* one plain paragraph; highlights are made by the user's events only
InitEvents == InitWith({DocPlain}, MaxEventOps, FALSE, 1)

\* the behaviours of a page that leaves the highlighter to the user's events and may
\* destroy it
NextEvents ==
  \/ Return
  \/ \E c \in Colors : SetColor(c)
  \/ Destroy
  \/ \E type \in {"mouseup", "touchend"}, r \in Selections, before \in BOOLEAN :
       Dispatch(type, r, before)

SpecEvents == InitEvents /\ [][NextEvents]_vars

\* the host calls getHighlights({container, andSelf, grouped})
GetHighlights(element, andSelf, grouped) ==
  /\ last.op = "none"
  /\ pre' = dom
  /\ last' = [Idle EXCEPT !.op = "get", !.element = ContainerOf(element),
                          !.andSelf = andSelf, !.grouped = grouped,
                          !.result = IF grouped THEN <<>>
                                     ELSE getHighlights(dom, ContainerOf(element), andSelf),
                          !.groups = IF grouped
                                     THEN groupHighlights(dom,
                                            getHighlights(dom, ContainerOf(element), andSelf))
                                     ELSE <<>>]
  /\ UNCHANGED <<dom, color, ops, limit, host>>

\* a paragraph with an inner element, selections of whole nodes
InitQuery == InitWith({DocNested}, MaxQueryOps, FALSE, 1)

\* the behaviours in which the user highlights and the host asks for the markers
NextQuery ==
  \/ Return
  \/ \E c \in Colors : SetColor(c)
  \/ \E r \in Selections, before \in BOOLEAN : DoHighlight(r, before)
  \/ \E element \in Elements, andSelf \in BOOLEAN, grouped \in BOOLEAN :
       GetHighlights(element, andSelf, grouped)

SpecQuery == InitQuery /\ [][NextQuery]_vars

\* the host calls serializeHighlights()
SerializeHighlights ==
  /\ last.op = "none"
  /\ pre' = dom
  /\ last' = [Idle EXCEPT !.op = "serialize", !.json = JSONStringify(serializeHighlights(dom))]
  /\ UNCHANGED <<dom, color, ops, limit, host>>

\* a paragraph with an inner element, any selection
InitSerial == InitWith({DocBold}, MaxSerialOps, FALSE, 1)

\* the behaviours in which the user highlights and the host serializes
NextSerial ==
  \/ Return
  \/ \E c \in Colors : SetColor(c)
  \/ \E r \in Selections, before \in BOOLEAN : DoHighlight(r, before)
  \/ SerializeHighlights

SpecSerial == InitSerial /\ [][NextSerial]_vars

\* no selection: the window's selection is the run of characters from..to of the page
Unselected == [from |-> 0, to |-> 0]

\* the text nodes of the page in document order
Leaves(h) == SelectSeq(PreOrder(h, Body), LAMBDA n : h[n].kind = "text")

\* the text node that holds character k of the page, and the character's place in it
RECURSIVE PointIn(_, _, _)
PointIn(h, leaves, k) ==
  IF leaves = <<>> THEN [n |-> Null, o |-> 0]
  ELSE IF k <= Len(h[Head(leaves)].val) THEN [n |-> Head(leaves), o |-> k]
       ELSE PointIn(h, Tail(leaves), k - Len(h[Head(leaves)].val))

\* dom(this.el).getRange(): the range of the window's selection
getRange(h, w) ==
  IF w.selection = Unselected THEN NoRange
  ELSE [sc |-> PointIn(h, Leaves(h), w.selection.from).n,
        so |-> PointIn(h, Leaves(h), w.selection.from).o - 1,
        ec |-> PointIn(h, Leaves(h), w.selection.to).n,
        eo |-> PointIn(h, Leaves(h), w.selection.to).o]

\* where text occurs in the page at or after the place from
Occurrences(h, text, from) ==
  {k \in from..(Len(textContent(h, Body)) - Len(text) + 1) :
     SubSeq(textContent(h, Body), k, k + Len(text) - 1) = text}

\* wnd.find(text, caseSens): the first occurrence after the selection, 0 for false
WindowFind(h, w, text) ==
  IF Occurrences(h, text, w.selection.to + 1) = {} THEN 0
  ELSE CHOOSE k \in Occurrences(h, text, w.selection.to + 1) :
         \A j \in Occurrences(h, text, w.selection.to + 1) : k <= j

\* wnd.find has found text at k: it selects the occurrence and scrolls to it
Selected(f, k, n) ==
  [f EXCEPT !.w = [selection |-> [from |-> k, to |-> k + n - 1], scroll |-> k],
            !.trail = Append(@, "match")]

\* lines 95-96 of a doHighlight(true) within find, x is what they left
AfterHighlight(f, x) ==
  [f EXCEPT !.h = x.h, !.err = x.err, !.ops = @ + 1,
            !.trail = Append(@, IF x.err THEN "throw" ELSE "highlight")]

\* line 503: this.doHighlight(true)
KeepRangeHighlight(f, c, before) ==
  IF NoSelection(getRange(f.h, f.w)) \/ ~GoesOn(before) THEN [f EXCEPT !.trail = Append(@, "veto")]
  ELSE AfterHighlight(f, HighlightAndNormalize(
                           highlightRange(f.h, getRange(f.h, f.w), c, f.ops + 1)))

\* line 502, k is what wnd.find has answered
OnAnswer(f, text, k) ==
  IF k = 0 THEN [f EXCEPT !.trail = Append(@, "none"), !.done = TRUE]
  ELSE Selected(f, k, Len(text))

\* lines 502-504: while (wnd.find(text, caseSens)) this.doHighlight(true)
RECURSIVE FindLoop(_, _, _, _)
FindLoop(f, text, c, before) ==
  IF f.err \/ f.done THEN f
  ELSE IF f.w.selection # Unselected /\ f.trail # <<>> /\ f.trail[Len(f.trail)] = "match"
       THEN FindLoop(KeepRangeHighlight(f, c, before), text, c, before)
       ELSE FindLoop(OnAnswer(f, text, WindowFind(f.h, f.w, text)), text, c, before)

\* lines 515-516, not reached when doHighlight has thrown
FindEnd(f) ==
  IF f.err THEN f ELSE [f EXCEPT !.w = [selection |-> Unselected, scroll |-> f.saved]]

\* find(text) on the tree h with the window w: lines 490-499 set out, then the loop
find(h, w, text, c, before, n) ==
  FindEnd(FindLoop([h |-> h, w |-> [w EXCEPT !.selection = Unselected], saved |-> w.scroll,
                    ops |-> n, err |-> FALSE, done |-> FALSE, trail |-> <<>>],
                   text, c, before))

\* the document and the record of a call of find, f is what it left
FindDone(w, text, f) ==
  /\ dom' = Renumber(f.h)
  /\ ops' = f.ops
  /\ last' = [Idle EXCEPT !.op = "find", !.find = text, !.trail = f.trail,
                          !.window = <<w, f.w>>, !.thrown = f.err, !.color = color]

\* the host calls find(text) while the window has the selection and the scroll position
\* of w; before is what onBeforeHighlight answers
Find(text, w, before) ==
  /\ last.op = "none"
  /\ ops < limit.ops
  /\ pre' = dom
  /\ UNCHANGED <<color, limit, host>>
  /\ FindDone(w, text, find(dom, w, text, color, before, ops))

\* <p>abab</p>
DocEcho ==
  [i \in Ids |-> CASE i = Body -> ElemNode("BODY", <<El>>, Null)
                   [] i = El -> ElemNode("P", <<3>>, Body)
                   [] i = 3 -> TextNode(<<1, 2, 1, 2>>, El)
                   [] OTHER -> Blank]

\* <p>a<button><i>b</i></button></p>
DocPress ==
  [i \in Ids |-> CASE i = Body -> ElemNode("BODY", <<El>>, Null)
                   [] i = El -> ElemNode("P", <<3, 4>>, Body)
                   [] i = 3 -> TextNode(<<1>>, El)
                   [] i = 4 -> ElemNode("BUTTON", <<5>>, El)
                   [] i = 5 -> ElemNode("I", <<6>>, 4)
                   [] i = 6 -> TextNode(<<2>>, 5)
                   [] OTHER -> Blank]

\* the texts the host looks for: a, ab, ba and c
Sought == {<<1>>, <<1, 2>>, <<2, 1>>, <<3>>}

\* the windows find is called in: nothing or the first two characters selected, scrolled
\* to the top or further down
Windows == [selection : {Unselected, [from |-> 1, to |-> 2]}, scroll : {0, TooFar}]

\* paragraphs in which a text occurs more than once or runs into a button
InitFind == InitWith({DocEcho, DocPress}, MaxFindOps, TRUE, 1)

\* the behaviours in which the user highlights and the host calls find
NextFind ==
  \/ Return
  \/ \E c \in Colors : SetColor(c)
  \/ \E r \in Selections, before \in BOOLEAN : DoHighlight(r, before)
  \/ \E text \in Sought, w \in Windows, before \in BOOLEAN : Find(text, w, before)

SpecFind == InitFind /\ [][NextFind]_vars

\* <p>abc</p>
DocShort ==
  [i \in Ids |-> CASE i = Body -> ElemNode("BODY", <<El>>, Null)
                   [] i = El -> ElemNode("P", <<3>>, Body)
                   [] i = 3 -> TextNode(<<1, 2, 3>>, El)
                   [] OTHER -> Blank]

\* one short paragraph, any selection, operations enough to nest markers and go on
InitNest == InitWith({DocShort}, MaxNestOps, FALSE, 1)

\* the behaviours in which the tree is changed by the user's highlight operations only
NextNest ==
  \/ Return
  \/ \E c \in Colors : SetColor(c)
  \/ \E r \in Selections, before \in BOOLEAN : DoHighlight(r, before)

SpecNest == InitNest /\ [][NextNest]_vars

\* the behaviours in which the host also passes damaged or malformed texts to
\* deserializeHighlights
NextCodec ==
  \/ Next
  \/ \E k \in 1..MaxNodes, fault \in Faults : RestoreDamaged(k, fault)
  \/ \E text \in DOMAIN Texts : RestoreText(text)

SpecCodec == InitCodec /\ [][NextCodec]_vars

----------------------------------------------------------------------------
(* What the claims speak of *)

Markers(h) == Range(QueryMarkers(h, Body))

TextNodes(h) == {n \in Range(PreOrder(h, Body)) : h[n].kind = "text"}

\* the characters of the tree that lie inside a marker
Marked(h) == UNION {SeqToSet(textContent(h, m)) : m \in Markers(h)}

Highlighted == last.op = "highlight" /\ last.before

\* the selection of the last operation lay in one text node of the tree before it
InOneText == IsText(pre, last.r.sc) /\ last.r.sc = last.r.ec

SelectedText == SubSeq(pre[last.r.sc].val, last.r.so + 1, last.r.eo)

----------------------------------------------------------------------------
(* C1: with no existing markers, highlighting an interior, not blank substring
   of one text node creates exactly one marker, whose text is the selected
   substring, and getHighlights() returns exactly that marker. *)
C1_Case ==
  /\ Highlighted
  /\ Markers(pre) = {}
  /\ InOneText
  /\ 0 < last.r.so /\ last.r.so < last.r.eo /\ last.r.eo < Len(pre[last.r.sc].val)
  /\ ~IsBlank(SelectedText)

C1_InteriorSubstring ==
  C1_Case =>
    LET got == getHighlights(dom, El, TRUE)
    IN /\ ~last.thrown
       /\ Len(got) = 1
       /\ textContent(dom, got[1]) = SelectedText
       /\ Cardinality(Markers(dom)) = 1

\* "b c" of "ab cd" has been highlighted
C1_Witness ==
  /\ C1_Case
  /\ pre[last.r.sc].val = <<1, 2, -3, 4, 5>> /\ SelectedText = <<2, -3, 4>>
  /\ Len(getHighlights(dom, El, TRUE)) = 1

----------------------------------------------------------------------------
(* C2: refineRangeBoundaries and the walk of highlightRange wrap every text
   run of the selection that is not blank and whose parent is not ignored, and
   wrap no character before the start or after the end of the selection. *)

\* the characters of text node t that lie between the boundaries of r
SelectedOf(h, r, t) ==
  {h[t].val[j] : j \in {j \in 1..Len(h[t].val) :
                          /\ Pos(h, r.sc, r.so) <= Pos(h, t, j - 1)
                          /\ Pos(h, t, j) <= Pos(h, r.ec, r.eo)}}

SelectedChars(h, r) == UNION {SelectedOf(h, r, t) : t \in TextNodes(h)}

\* the characters of the selected runs that are not blank and have no ignored parent
RunsToWrap(h, r) ==
  UNION {SelectedOf(h, r, t) :
           t \in {t \in TextNodes(h) : /\ h[parentNode(h, t)].tag \notin IGNORE_TAGS
                                       /\ \E c \in SelectedOf(h, r, t) : c > 0}}

C2_VisitsExactlySelection ==
  Highlighted =>
    /\ ~last.thrown
    /\ RunsToWrap(pre, last.r) \subseteq last.wrapped
    /\ last.wrapped \subseteq SelectedChars(pre, last.r)

----------------------------------------------------------------------------
(* C3: serializeHighlights() and deserializeHighlights() on the page loaded
   again (the same elements and text, no markers, adjacent text merged)
   restore as many markers as there were, each with the same text at the same
   place, in the same order. *)

\* the text of the markers of h, in document order
MarkerTexts(h) == [i \in 1..Len(QueryMarkers(h, El)) |-> textContent(h, QueryMarkers(h, El)[i])]

C3_RoundTrip == last.op = "restore" => MarkerTexts(dom) = MarkerTexts(pre)

----------------------------------------------------------------------------
(* C4: when onBeforeHighlight answers false for a selection that is not
   collapsed, doHighlight changes nothing: the tree is the tree before the
   call (no text split, no marker created) and onAfterHighlight is not
   called. *)
C4_VetoChangesNothing ==
  (last.op = "highlight" /\ ~last.before) => (dom = pre /\ ~last.called /\ ~last.thrown)

\* a vetoed selection that would have split the text and created a marker
C4_Witness ==
  /\ last.op = "highlight" /\ ~last.before
  /\ InOneText /\ last.r.so = 1 /\ last.r.eo = 3
  /\ dom = pre

----------------------------------------------------------------------------
(* C5: removeHighlights asks onRemoveHighlight once for each marker collected
   under the container; a marker the hook answers false for is still an
   attached marker with the same text when removeHighlights returns, and a
   marker it answers true for is no longer in the tree. *)

\* the markers of the container of the last removeHighlights, before the call
Collected == Range(getHighlights(pre, ContainerOf(last.element), TRUE))

C5_HookDecides ==
  last.op = "remove" =>
    /\ Range(last.asked) = Collected
    /\ Len(last.asked) = Cardinality(Collected)
    /\ \A m \in Collected :
         IF m \in last.keep
         THEN /\ isHighlight(dom, last.after[m])
              /\ textContent(dom, last.after[m]) = textContent(pre, m)
         ELSE last.after[m] = Null

----------------------------------------------------------------------------
(* C6: with the hook that always answers true, removeHighlights() leaves no
   marker under the anchor, and removeHighlights(element) leaves no marker in
   the subtree of element (element included when it is a marker) and leaves
   every marker outside that subtree as it was. *)

RemovedAll == last.op = "remove" /\ last.keep = {}

\* the marker m of the tree before the call is in the tree, with its text, colour and timestamp
Unchanged(m) ==
  /\ isHighlight(dom, last.after[m])
  /\ textContent(dom, last.after[m]) = textContent(pre, m)
  /\ dom[last.after[m]].color = pre[m].color
  /\ dom[last.after[m]].ts = pre[m].ts

C6_RemovesAllInside ==
  RemovedAll =>
    /\ last.element = Null => QueryMarkers(dom, El) = <<>>
    /\ \A m \in Collected : last.after[m] = Null
    /\ \A m \in Markers(pre) \ Collected : Unchanged(m)
    /\ Markers(dom) = {last.after[m] : m \in Markers(pre) \ Collected}

\* a marker is removed together with a marker nested in it, a marker around it stays
C6_Witness ==
  /\ RemovedAll
  /\ isHighlight(pre, last.element)
  /\ QueryMarkers(pre, last.element) # <<>>
  /\ \E m \in Markers(pre) \ Collected : Contains(pre, m, last.element) /\ Unchanged(m)

----------------------------------------------------------------------------
(* C7: when mergeSiblingHighlights comes to a marker whose previous or next
   sibling is a marker of the same colour, the two become one attached marker
   whose text is the text of the two in document order, and the sibling that
   was absorbed is no longer in the tree. *)
C7_MergeJoinsInOrder ==
  \A i \in 1..Len(last.log) :
    (last.log[i].prevSame \/ last.log[i].nextSame) =>
      /\ last.log[i].kept
      /\ last.log[i].textLeft =
           (IF last.log[i].prevSame THEN last.log[i].textPrev ELSE <<>>)
             \o last.log[i].text
             \o (IF last.log[i].nextSame THEN last.log[i].textNext ELSE <<>>)
      /\ last.log[i].prevSame => last.log[i].prevGone
      /\ last.log[i].nextSame => last.log[i].nextGone

\* the marker a doHighlight() has created has absorbed the same-colour marker before it
C7_Witness ==
  /\ Highlighted /\ ~last.thrown
  /\ \E i \in 1..Len(last.log) :
       /\ last.log[i].prevSame /\ last.log[i].kept /\ last.log[i].prevGone
       /\ last.log[i].textPrev # <<>> /\ last.log[i].text # <<>>
       /\ last.log[i].textLeft = last.log[i].textPrev \o last.log[i].text

----------------------------------------------------------------------------
(* C8: highlighting, in the colour of an existing marker, a selection whose
   text is the text of that marker or lies inside it adds no marker: one
   marker of that colour covers that text afterwards, it has no marker inside,
   and it is the one entry of the list onAfterHighlight gets. *)

\* the markers of the tree before the call, of the colour in use, that hold the whole selection
Enclosing ==
  {m \in Markers(pre) : /\ pre[m].color = last.color
                        /\ SelectedChars(pre, last.r) \subseteq SeqToSet(textContent(pre, m))}

C8_Case == Highlighted /\ SelectedChars(pre, last.r) # {} /\ Enclosing # {}

\* the markers of the tree after the call, of the colour in use, that hold the whole selection
Covering ==
  {m \in Markers(dom) : /\ dom[m].color = last.color
                        /\ SelectedChars(pre, last.r) \subseteq SeqToSet(textContent(dom, m))}

C8_SameColourCollapses ==
  C8_Case =>
    /\ Cardinality(Markers(dom)) <= Cardinality(Markers(pre))
    /\ Cardinality(Covering) = 1
    /\ \A m \in Covering : QueryMarkers(dom, m) = <<>>
    /\ last.called
    /\ Len(last.result) = 1 /\ Range(last.result) = Covering

\* the text nodes of the tree before the call that hold a selected character
Touched == {t \in TextNodes(pre) : SelectedOf(pre, last.r, t) # {}}

\* the selection starts and ends in text nodes, holds a character that is not white
\* space, and every text node it touches is a child of a marker of the colour in use
C8_DirectCase ==
  /\ C8_Case
  /\ IsText(pre, last.r.sc) /\ IsText(pre, last.r.ec)
  /\ \E c \in SelectedChars(pre, last.r) : c > 0
  /\ \A t \in Touched : /\ pre[parentNode(pre, t)].hl
                        /\ pre[parentNode(pre, t)].color = last.color

(* C8, as the code has it: when the selection starts and ends in text nodes
   that are children of one marker of the colour in use, and is not white space
   only, the call adds no marker, and the list onAfterHighlight gets has one
   entry: a marker of that colour that holds the selection and has no marker
   inside that holds any of it. *)
C8_DirectChildCollapses ==
  C8_DirectCase =>
    /\ Cardinality(Markers(dom)) <= Cardinality(Markers(pre))
    /\ last.called
    /\ Len(last.result) = 1
    /\ last.result[1] \in Covering
    /\ \A n \in Range(QueryMarkers(dom, last.result[1])) :
         SeqToSet(textContent(dom, n)) \cap SelectedChars(pre, last.r) = {}

\* a part of the text of a marker has been highlighted again in the marker's colour
C8_Witness ==
  /\ C8_DirectCase /\ InOneText /\ ~last.thrown
  /\ last.wrapped # {}
  /\ dom = pre
  /\ Len(last.result) = 1 /\ last.result[1] \in Enclosing

----------------------------------------------------------------------------
(* C9: one marker holds a span of a text node of the paragraph; highlighting,
   in the same colour, a second span of that text node that at least one
   character separates from the first does not merge the two: getHighlights()
   has length 2, each marker holds its own span, and the text between the
   spans is in no marker. *)

Abs(c) == IF c < 0 THEN -c ELSE c

\* the one marker of the tree before the call
First == CHOOSE m \in Markers(pre) : TRUE

\* the second span lies in a text node beside the one marker, which holds the first span
C9_Case ==
  /\ Highlighted
  /\ Cardinality(Markers(pre)) = 1
  /\ pre[First].color = last.color
  /\ parentNode(pre, First) = El
  /\ Len(pre[First].kids) = 1 /\ IsText(pre, pre[First].kids[1])
  /\ InOneText /\ parentNode(pre, last.r.sc) = El
  /\ last.r.so < last.r.eo
  /\ \A a \in SeqToSet(textContent(pre, First)), b \in SeqToSet(SelectedText) :
       Abs(a) - Abs(b) \notin {-1, 1}

\* the two spans are two markers, and nothing else is marked
TwoMarkers ==
  /\ ~last.thrown
  /\ Len(getHighlights(dom, El, TRUE)) = 2
  /\ {textContent(dom, m) : m \in Markers(dom)} = {textContent(pre, First), SelectedText}
  /\ Marked(dom) = SeqToSet(textContent(pre, First)) \cup SeqToSet(SelectedText)

C9_SeparatedSpansStayApart == C9_Case => TwoMarkers

(* C9, as the code has it: the same, when the second span holds a character
   that is not white space. *)
C9_SeparatedWordsStayApart == (C9_Case /\ ~IsBlank(SelectedText)) => TwoMarkers

\* two markers of one colour with a single blank between them
C9_Witness ==
  /\ C9_Case /\ ~IsBlank(SelectedText) /\ TwoMarkers
  /\ \E t \in TextNodes(dom) :
       /\ IsBlank(dom[t].val) /\ Len(dom[t].val) = 1
       /\ isHighlight(dom, previousSibling(dom, t))
       /\ isHighlight(dom, nextSibling(dom, t))
       /\ haveSameColor(dom, previousSibling(dom, t), nextSibling(dom, t))

----------------------------------------------------------------------------
(* C10: normalizeHighlights called on the list that normalizeHighlights has
   returned returns the same set of markers and leaves the tree as the first
   call left it. *)
C10_NormalizeIdempotent ==
  last.op = "renormalize" =>
    /\ ~last.thrown
    /\ dom = pre
    /\ Range(last.result) = Range(last.given)

----------------------------------------------------------------------------
(* C11: in deserializeHighlights a descriptor that fails (an array of the wrong
   shape such as [1], a path index that is not in the tree, an offset or a
   length beyond the text) is not thrown to the caller and does not end the
   batch: every descriptor of the input is tried, and the list returned holds
   the markers of the descriptors that succeeded, in input order. *)

\* the call was deserializeHighlights with an array of descriptors, one of them damaged
DecodedArray == last.op = "decode" /\ last.text = "array"

\* the markers made for the descriptors that succeeded, in input order
MadeInOrder == [i \in 1..Len(SelectSeq(last.log, LAMBDA x : x.ok)) |->
                  SelectSeq(last.log, LAMBDA x : x.ok)[i].made]

C11_FailuresStayLocal ==
  DecodedArray =>
    /\ ~last.thrown
    /\ Len(last.log) = Len(last.faults)
    /\ \A i \in 1..Len(last.faults) :
         last.faults[i] \in {"shape", "path", "offset", "length"} => ~last.log[i].ok
    /\ last.result = MadeInOrder
    /\ \A i \in 1..Len(last.result) :
         isHighlight(dom, last.result[i]) /\ Contains(dom, El, last.result[i])

\* a descriptor has failed and a later descriptor of the same input has made its marker
C11_Witness ==
  /\ DecodedArray
  /\ \E i, j \in 1..Len(last.faults) :
       /\ i < j
       /\ last.faults[i] \in {"shape", "path", "offset", "length"} /\ ~last.log[i].ok
       /\ last.log[j].ok /\ last.result = <<last.log[j].made>>
       /\ textContent(dom, last.log[j].made) # <<>>

----------------------------------------------------------------------------
(* C12: deserializeHighlights called with a string that is not empty and is
   not JSON throws to the caller, makes no marker and leaves the tree as it
   was. *)

\* the texts that JSON.parse rejects: not json, [ and [1,]
NotJSON == {"word", "unclosed", "comma"}

C12_ParseErrorIsFatal ==
  (last.op = "decode" /\ last.text \in NotJSON) =>
    /\ last.thrown
    /\ last.result = <<>>
    /\ dom = pre

\* "not json" was passed on a page that holds a marker
C12_Witness ==
  /\ last.op = "decode" /\ last.text = "word"
  /\ last.thrown
  /\ Markers(pre) # {} /\ dom = pre

----------------------------------------------------------------------------
(* C13: deserializeHighlights throws to the caller, and returns no list,
   whenever the text parses to something that is not an array of 5-element
   arrays. *)

\* the entries the host has put in place of a descriptor that are no 5-element array
NoTuple == {"shape", "number", "short", "long"}

\* the text parses, and not to an array of 5-element arrays
ParsesToOther ==
  /\ last.op = "decode"
  /\ \/ last.text = "number"
     \/ last.text = "array" /\ \E i \in 1..Len(last.faults) : last.faults[i] \in NoTuple

C13_WrongShapeIsFatal == ParsesToOther => last.thrown

(* C13, as the code has it: deserializeHighlights throws, makes no marker and
   leaves the tree as it was when the text parses to something that is not an
   array; when it parses to an array, whatever its entries are, it does not
   throw: every entry is tried on its own. *)
C13_OnlyNonArraysAreFatal ==
  last.op = "decode" =>
    /\ last.text = "number" => (last.thrown /\ last.result = <<>> /\ dom = pre)
    /\ last.text \in {"array", "none"} => (~last.thrown /\ Len(last.log) = Len(last.faults))

\* the text 1 was passed on a page that holds a marker
C13_Witness ==
  /\ last.op = "decode" /\ last.text = "number"
  /\ last.thrown
  /\ Markers(pre) # {} /\ dom = pre

----------------------------------------------------------------------------
(* C14: highlightRange returns an empty list, throws nothing and makes no
   marker when there is no range, when the range is collapsed, and when the
   range is not collapsed but encloses no content. *)

\* the call was highlightRange with no range, a collapsed one, or one that encloses nothing
C14_Case ==
  /\ last.op = "range"
  /\ \/ NoSelection(last.r)
     \/ SelectedChars(pre, last.r) = {}

C14_NothingToHighlight ==
  C14_Case =>
    /\ ~last.thrown
    /\ last.result = <<>>
    /\ Cardinality(Markers(dom)) = Cardinality(Markers(pre))

----------------------------------------------------------------------------
(* C15: after destroy() has returned, a mouseup or touchend on the anchor runs no
   highlight operation and creates no marker, the context class is off the anchor,
   and destroy() itself has left the tree, with every marker in it, as it was.
   In SpecEvents every highlight operation is run by an event. *)

C15_DestroyDisables ==
  /\ host.destroyed => ~host.contextClass
  /\ last.op = "destroy" => dom = pre
  /\ (host.destroyed /\ last.op = "highlight") =>
       /\ ~last.called
       /\ last.wrapped = {}
       /\ Markers(dom) = Markers(pre)

----------------------------------------------------------------------------
(* C16: getHighlights returns exactly the markers below the container, and the
   container itself when andSelf is true and it is a marker, each once. Grouped, every
   such marker is in exactly one group, two markers share a group exactly when they
   carry the same timestamp, the groups come in the order in which their timestamps
   first occur in the list (the markers below the container in document order, then
   the container), and toString of a group is its members' text joined in list order. *)

\* the markers getHighlights is asked for
Asked ==
  {m \in Markers(dom) : Contains(dom, last.element, m)}
    \cup (IF last.andSelf /\ isHighlight(dom, last.element) THEN {last.element} ELSE {})

\* the place of a marker in the list: document order, the container last
ListPlace(m) == IF m = last.element THEN MaxNodes + 1 ELSE IndexOf(PreOrder(dom, Body), m)

\* where the timestamp ts first occurs in the list
FirstPlace(ts) ==
  CHOOSE p \in {ListPlace(m) : m \in {a \in Asked : dom[a].ts = ts}} :
    \A m \in {a \in Asked : dom[a].ts = ts} : p <= ListPlace(m)

\* the places of the group's members in the list
Places(group) == [j \in 1..Len(group.chunks) |-> ListPlace(group.chunks[j])]

C16_Plain ==
  /\ Range(last.result) = Asked
  /\ Len(last.result) = Cardinality(Asked)

C16_Grouped ==
  /\ \A m \in Asked :
       Cardinality({x \in (DOMAIN last.groups) \X (1..MaxNodes) :
                      /\ x[2] <= Len(last.groups[x[1]].chunks)
                      /\ last.groups[x[1]].chunks[x[2]] = m}) = 1
  /\ \A i, j \in DOMAIN last.groups :
       \A a \in Range(last.groups[i].chunks), b \in Range(last.groups[j].chunks) :
         /\ a \in Asked
         /\ (i = j) <=> (dom[a].ts = dom[b].ts)
  /\ \A i, j \in DOMAIN last.groups :
       i < j => FirstPlace(last.groups[i].timestamp) < FirstPlace(last.groups[j].timestamp)
  /\ \A i \in DOMAIN last.groups :
       /\ last.groups[i].chunks # <<>>
       /\ last.groups[i].timestamp = dom[last.groups[i].chunks[1]].ts
       /\ \A j, k \in DOMAIN last.groups[i].chunks :
            j < k => Places(last.groups[i])[j] < Places(last.groups[i])[k]
       /\ last.groups[i].toString = TextOfSeq(dom, last.groups[i].chunks)

C16_GetHighlights ==
  last.op = "get" => IF last.grouped THEN C16_Grouped ELSE C16_Plain

\* two groups, the first with a member after the member of the second
C16_Witness ==
  /\ last.op = "get"
  /\ last.grouped
  /\ Len(last.groups) = 2
  /\ Len(last.groups[1].chunks) = 2
  /\ ListPlace(last.groups[1].chunks[2]) > ListPlace(last.groups[2].chunks[1])

----------------------------------------------------------------------------
(* C17: the text serializeHighlights returns is a JSON array with exactly one
   5-element tuple [wrapper, text, path, offset, length] for each marker under the
   anchor, the less deep markers first. The child indices of path lead from the anchor
   to the tuple's marker, text is that marker's text content, length the number of its
   characters, offset the length of the text node right before the marker, 0 when the
   node before it is no text node or there is none. *)

\* the tuples of the serialized text
Tuples == JSONParse(last.json).items

\* the node the child indices lead to from n
RECURSIVE Reached(_, _)
Reached(n, indices) ==
  IF indices = <<>> \/ n = Null THEN n
  ELSE Reached(childItem(dom, n, ToIndex(Head(indices))), Tail(indices))

\* the node tuple i leads to
Described(i) == Reached(El, SplitPath(Tuples[i].items[3].v))

\* the text node right before the marker m, as a set
TextBefore(m) == {t \in TextNodes(dom) : /\ dom[t].parent = dom[m].parent
                                         /\ ChildIndex(dom, t) + 1 = ChildIndex(dom, m)}

C17_Tuple(i) ==
  /\ Tuples[i].arr
  /\ Len(Tuples[i].items) = 5
  /\ [k \in 1..5 |-> Tuples[i].items[k].t] = <<"html", "str", "str", "num", "num">>
  /\ Described(i) \in Markers(dom)
  /\ Tuples[i].items[1].v.color = dom[Described(i)].color
  /\ Tuples[i].items[2].v = textContent(dom, Described(i))
  /\ Tuples[i].items[5].v = Len(Tuples[i].items[2].v)
  /\ \A t \in TextBefore(Described(i)) : Tuples[i].items[4].v = Len(dom[t].val)
  /\ TextBefore(Described(i)) = {} => Tuples[i].items[4].v = 0

C17_OneTuplePerMarker ==
  last.op = "serialize" =>
    /\ JSONParse(last.json).ok
    /\ JSONParse(last.json).array
    /\ Len(Tuples) = Cardinality({m \in Markers(dom) : Contains(dom, El, m)})
    /\ \A i \in DOMAIN Tuples : C17_Tuple(i)
    /\ \A i, j \in DOMAIN Tuples :
         /\ i # j => Described(i) # Described(j)
         /\ i < j => Depth(dom, Described(i)) <= Depth(dom, Described(j))

\* two markers, the deeper one first in the document, one of them right after a text
C17_Witness ==
  /\ last.op = "serialize"
  /\ Len(Tuples) = 2
  /\ Depth(dom, Described(1)) < Depth(dom, Described(2))
  /\ IndexOf(PreOrder(dom, Body), Described(2)) < IndexOf(PreOrder(dom, Body), Described(1))
  /\ Tuples[1].items[4].v > 0

----------------------------------------------------------------------------
(* C18: find(text) runs one highlight operation for each match the window's search
   reports before it asks for the next one, stops at the first answer that there is
   none, and returns with the scroll position and the selection the window had when
   find was called. *)

\* every "match" of the trail is followed by the operation on it, the last answer is none
OneRunPerMatch ==
  /\ last.trail # <<>>
  /\ last.trail[Len(last.trail)] = "none"
  /\ \A i \in 1..(Len(last.trail) - 1) :
       /\ last.trail[i] # "none"
       /\ last.trail[i] = "match" <=> i % 2 = 1
       /\ last.trail[i] \in {"highlight", "veto"} <=> i % 2 = 0

C18_FindRestoresWindow ==
  last.op = "find" =>
    /\ OneRunPerMatch
    /\ last.window[2].scroll = last.window[1].scroll
    /\ last.window[2].selection = last.window[1].selection

----------------------------------------------------------------------------
(* C19: a highlight operation, and each of its parts called alone (merge,
   normalization), leaves the text of the anchor as it was: the same characters in the
   same order, whatever markers the tree holds. *)

C19_TextPreserved ==
  last.op \in {"highlight", "merge", "normalize", "renormalize"} =>
    textContent(dom, El) = textContent(pre, El)

----------------------------------------------------------------------------
(* C20: after a sequence of highlight operations of any colours, each of which has
   run its normalization, no marker under the anchor has a child marker of its own
   colour. Stated as the step that carries it from one operation to the next: on a
   tree without such a pair, a highlight operation that runs its normalization
   (lines 95-96 return) leaves a tree without such a pair; the tree of Init has none. *)

\* the markers of h that have a child marker of their own colour
SameColourInside(h) ==
  {m \in Markers(h) : \E k \in Range(h[m].kids) : isHighlight(h, k) /\ haveSameColor(h, m, k)}

C20_Case == Highlighted /\ ~last.thrown /\ SameColourInside(pre) = {}

C20_NoSameColourChild ==
  /\ last.op = "none" /\ ops = 0 => SameColourInside(dom) = {}
  /\ C20_Case => SameColourInside(dom) = {}

\* the selection took in text of a marker of the colour in use
C20_Witness ==
  /\ C20_Case
  /\ \E m \in Markers(pre) :
       /\ pre[m].color = last.color
       /\ SeqToSet(textContent(pre, m)) \cap last.wrapped # {}
       /\ ~(SeqToSet(textContent(pre, m)) \subseteq last.wrapped)

----------------------------------------------------------------------------
(* C21: after a sequence of highlight operations of any colours, each of which has
   run its normalization, no marker is the first or the last child of a parent
   marker. Stated as the step from one operation to the next: on a tree without such
   a marker, a highlight operation that runs its normalization leaves none. *)

\* the markers of h that are the first or the last child of a marker
AtEdge(h) ==
  {k \in Markers(h) : /\ isHighlight(h, parentNode(h, k))
                       /\ \/ previousSibling(h, k) = Null
                          \/ nextSibling(h, k) = Null}

C21_NoMarkerAtEdge ==
  (Highlighted /\ ~last.thrown /\ AtEdge(pre) = {}) => AtEdge(dom) = {}

----------------------------------------------------------------------------
(* C22: after a sequence of highlight operations of any colours, each of which has
   run its normalization, no marker has a marker of its own colour as its next
   sibling. Stated as the step from one operation to the next: on a tree without such
   a pair, a highlight operation that runs its normalization leaves none. *)

\* the markers of h whose next sibling is a marker of the same colour
BeforeSameColour(h) ==
  {m \in Markers(h) : /\ isHighlight(h, nextSibling(h, m))
                       /\ haveSameColor(h, m, nextSibling(h, m))}

C22_NoSameColourNeighbours ==
  (Highlighted /\ ~last.thrown /\ BeforeSameColour(pre) = {}) => BeforeSameColour(dom) = {}

----------------------------------------------------------------------------
(* C23: flattenNestedHighlights ends without an error on every list of markers
   that are in the tree: a call of normalizeHighlights by the host, whose first step
   it is, never throws. *)

C23_FlattenEnds ==
  (last.op \in {"normalize", "renormalize"} /\ \A m \in Range(last.given) : Attached(pre, m))
    => ~last.thrown

----------------------------------------------------------------------------
(* C24: for every range that is not collapsed, the walk of highlightRange comes to
   its stop condition: it does not walk off the root of the tree (which throws) and
   wraps no character that lies outside the selection. *)

C24_WalkStops ==
  (last.op = "range" /\ ~NoSelection(last.r)) =>
    /\ ~last.thrown
    /\ last.wrapped \subseteq SelectedChars(pre, last.r)

----------------------------------------------------------------------------
(* C25: the text a highlight operation wraps is text of the anchor that is not
   white space only and does not lie in the subtree of an ignore-list element,
   wherever the selection starts and whatever it covers. *)

\* the text nodes of h in the subtree of an ignore-list element
InIgnored(h) ==
  {t \in TextNodes(h) : \E a \in Range(Parents(h, t)) : h[a].tag \in IGNORE_TAGS}

\* the text nodes of h, as they were before the operation, that it wrapped text of
WrappedFrom(h) == {t \in TextNodes(h) : SeqToSet(h[t].val) \cap last.wrapped # {}}

C25_WrapsOnlyEligibleText ==
  Highlighted =>
    /\ \A t \in WrappedFrom(pre) : /\ t \notin InIgnored(pre)
                                    /\ Contains(pre, El, t)
    /\ \A m \in Range(last.result) : ~IsBlank(textContent(dom, m))

----------------------------------------------------------------------------
(* C26: removeHighlights leaves the text of the anchor as it was, whatever
   onRemoveHighlight answers for each marker. *)

C26_RemoveKeepsText ==
  last.op = "remove" => textContent(dom, El) = textContent(pre, El)

----------------------------------------------------------------------------
(* C27: every marker a highlight operation passes to onAfterHighlight carries the
   timestamp passed in the same call, which is the one the operation has read from
   the clock: the number of the operation. *)

C27_PassedMarkersCarryTimestamp ==
  (last.op = "highlight" /\ last.called) =>
    \A m \in Range(last.result) : dom[m].ts = ops

====
